---- MODULE Spec2Model ----
(***************************************************************************)
(* A model of btool-go: the packfile-backed object store, the snap,        *)
(* restore and prune commands, the snapshot catalog and the ID counter.    *)
(*                                                                         *)
(* Bytes are finite sequences of naturals.  An object digest is a natural  *)
(* below HashModulus; as a file name it is rendered as HashWidth hex       *)
(* digits.  JSON documents are token sequences that start with a tag, so   *)
(* that parsing a byte sequence as one kind of document can fail or can    *)
(* succeed on bytes that were written as another kind.                     *)
(***************************************************************************)
EXTENDS Integers, Sequences, FiniteSets, TLC

\* ------------------------------------------------------------------ bounds

\* Snapshots taken in one behaviour.
MaxSnaps == 3
\* I/O failures and crashes injected in one behaviour.
MaxFaults == 1
\* The wall-clock seconds a snap can be taken at are 1..MaxTime.
MaxTime == 1
\* The workers that share one object store, and the calls they make on it.
NumWorkers == 2
MaxOps == 5
\* Entries removed from index.json in one behaviour.
MaxDrops == 1
\* The chunker's minimum and maximum chunk sizes (4 KiB and 16 KiB in the
\* program) and the longest file that is chunked, scaled down together.
MinChunk == 2
MaxChunk == 3
MaxFileLen == 5
\* The capacity of the jobs channel and of the errs channel of a restore (100
\* each in the code), and the most file entries a restored snapshot has.
JobsCap == 2
ErrsCap == 2
MaxJobs == 3

\* ------------------------------------------------------------------ helpers

EmptyMap == <<>>

RECURSIVE Flatten(_)
Flatten(ss) == IF ss = <<>> THEN <<>> ELSE Head(ss) \o Flatten(Tail(ss))

\* The elements of a finite set of naturals in ascending order.
RECURSIVE SortedSeq(_)
SortedSeq(S) ==
    IF S = {} THEN <<>>
    ELSE LET m == CHOOSE x \in S : \A y \in S : x <= y
         IN  <<m>> \o SortedSeq(S \ {m})

IsPrefix(p, s) == Len(p) <= Len(s) /\ SubSeq(s, 1, Len(p)) = p

\* ------------------------------------------------------------------ hasher

\* GetHash: a fixed-width digest of a byte sequence.  The digest is a
\* polynomial hash modulo a prime, wide enough that no two different objects
\* of the behaviours checked here share a digest, as SHA-256 is trusted to ensure.
HashModulus == 15485863
HashBase == 131
HashWidth == 6

RECURSIVE hashFold(_, _, _)
hashFold(b, i, h) ==
    IF i > Len(b) THEN h
    ELSE hashFold(b, i + 1, (h * HashBase + b[i] + 1) % HashModulus)

GetHash(content) == hashFold(content, 1, Len(content) + 7)

\* hex.EncodeToString: the digest as HashWidth hex digits, most significant first.
RECURSIVE hexDigits(_, _)
hexDigits(n, w) == IF w = 0 THEN <<>> ELSE hexDigits(n \div 16, w - 1) \o <<n % 16>>

HexOf(h) == hexDigits(h, HashWidth)

\* ------------------------------------------------------------------ permission bits

\* m AND NOT u on permission bits: what open(2) and mkdir(2) do with the umask.
RECURSIVE BitAndNot(_, _)
BitAndNot(m, u) ==
    IF m = 0 THEN 0
    ELSE (IF m % 2 = 1 /\ u % 2 = 0 THEN 1 ELSE 0) + 2 * BitAndNot(m \div 2, u \div 2)

\* info.Mode().Perm(): the low 9 bits.
Perm(m) == m % 512

OwnerWrite(m) == (m \div 128) % 2 = 1

\* ------------------------------------------------------------------ types

\* The JSON keys and string values that tell one document kind from another:
\* "entries" (Tree), "chunks" (FileManifest), "rootTreeHash" (Snap), and the
\* entry types "blob" and "tree".
JsonTags == [entries |-> 1001, chunks |-> 1002, snap |-> 1003, blob |-> 11, tree |-> 12]

TreeEntry(name, hash, type, mode) == [Name |-> name, Hash |-> hash, Type |-> type, Mode |-> mode]

ChunkRef(hash, size) == [Hash |-> hash, Size |-> size]

\* json.Marshal(types.Tree{Entries: entries})
MarshalTree(entries) ==
    <<JsonTags.entries>> \o
    Flatten([i \in 1..Len(entries) |->
        <<entries[i].Name, entries[i].Hash, entries[i].Type, entries[i].Mode>>])

\* json.Marshal(types.FileManifest{Chunks: chunkRefs, TotalSize: totalSize})
MarshalManifest(chunkRefs, totalSize) ==
    <<JsonTags.chunks, totalSize>> \o
    Flatten([i \in 1..Len(chunkRefs) |-> <<chunkRefs[i].Hash, chunkRefs[i].Size>>])

IsTreeJSON(b) == Len(b) >= 1 /\ b[1] = JsonTags.entries /\ (Len(b) - 1) % 4 = 0

IsManifestJSON(b) == Len(b) >= 2 /\ b[1] = JsonTags.chunks /\ (Len(b) - 2) % 2 = 0

IsSnapJSON(b) == Len(b) = 7 /\ b[1] = JsonTags.snap

\* json.Unmarshal(buffer, &tree): fails on bytes that are no JSON document, and
\* yields no entries on a document of another kind (unknown keys are ignored).
UnmarshalTree(b) ==
    IF IsTreeJSON(b)
    THEN [ok |-> TRUE,
          Entries |-> [i \in 1..((Len(b) - 1) \div 4) |->
              TreeEntry(b[4 * i - 2], b[4 * i - 1], b[4 * i], b[4 * i + 1])]]
    ELSE [ok |-> IsManifestJSON(b) \/ IsSnapJSON(b), Entries |-> <<>>]

\* json.Unmarshal(buffer, &manifest)
UnmarshalManifest(b) ==
    IF IsManifestJSON(b)
    THEN [ok |-> TRUE, TotalSize |-> b[2],
          Chunks |-> [i \in 1..((Len(b) - 2) \div 2) |-> ChunkRef(b[2 * i + 1], b[2 * i + 2])]]
    ELSE [ok |-> IsTreeJSON(b) \/ IsSnapJSON(b), TotalSize |-> 0, Chunks |-> <<>>]

\* json.MarshalIndent(types.Snap{...})
MarshalSnap(snap) ==
    <<JsonTags.snap, snap.ID, snap.Timestamp, snap.RootTreeHash, snap.Message,
      snap.SourceSize, snap.SnapSize>>

\* json.Unmarshal(content, &snapData) of a snapshot file; a truncated file fails.
UnmarshalSnap(b) ==
    IF IsSnapJSON(b)
    THEN [ok |-> TRUE, ID |-> b[2], Timestamp |-> b[3], RootTreeHash |-> b[4],
          Message |-> b[5], SourceSize |-> b[6], SnapSize |-> b[7]]
    ELSE [ok |-> FALSE, ID |-> 0, Timestamp |-> 0, RootTreeHash |-> 0,
          Message |-> 0, SourceSize |-> 0, SnapSize |-> 0]

PackIndexEntry(packHash, offset, length) ==
    [PackHash |-> packHash, Offset |-> offset, Length |-> length]

\* ------------------------------------------------------------------ chunker

\* ChunkFile on the bytes of a file: an empty file has no chunk; every file of
\* this model is shorter than the minimum chunk size (4 KiB) and is therefore
\* one chunk holding the whole file.
ChunkFile(content) ==
    IF Len(content) = 0 THEN [chunks |-> <<>>, totalSize |-> 0]
    ELSE [chunks |-> <<[Hash |-> GetHash(content), Size |-> Len(content), Data |-> content]>>,
          totalSize |-> Len(content)]

\* The lengths rabin.Chunker.Next can return on a stream of n bytes before
\* io.EOF: they cover the stream, none is longer than the maximum and none
\* but the last is shorter than the minimum; on a stream shorter than the
\* minimum the chunker may also return no chunk at all.
RECURSIVE SumSeq(_)
SumSeq(s) == IF s = <<>> THEN 0 ELSE Head(s) + SumSeq(Tail(s))

RabinCuts(n) ==
    IF n = 0 THEN {<<>>}
    ELSE {c \in UNION {[1..k -> 1..MaxChunk] : k \in 1..n} :
             /\ SumSeq(c) = n
             /\ \A i \in 1..(Len(c) - 1) : c[i] >= MinChunk}
         \cup (IF n < MinChunk THEN {<<>>} ELSE {})

\* ChunkFile's loop over the lengths the chunker returns: each chunk is the
\* slice content[offset : offset+length].
RECURSIVE chunkLoop(_, _, _, _)
chunkFromStart(content, lengths, offset, acc) ==
    IF lengths = <<>> THEN acc
    ELSE LET chunkData == SubSeq(content, 1, Head(lengths))
         IN  chunkLoop(content, Tail(lengths), offset + Head(lengths),
                 [chunks |-> Append(acc.chunks, [Hash |-> GetHash(chunkData),
                                                 Size |-> Len(chunkData), Data |-> chunkData]),
                  totalSize |-> acc.totalSize + Len(chunkData)])

chunkLoop(content, lengths, offset, acc) ==
    IF lengths = <<>> THEN acc
    ELSE LET chunkData == SubSeq(content, offset + 1, offset + Head(lengths))
         IN  chunkLoop(content, Tail(lengths), offset + Head(lengths),
                 [chunks |-> Append(acc.chunks, [Hash |-> GetHash(chunkData),
                                                 Size |-> Len(chunkData), Data |-> chunkData]),
                  totalSize |-> acc.totalSize + Len(chunkData)])

\* ChunkFile on the bytes of a file of any length, the chunker returning
\* `lengths`: nothing for an empty file, and the whole file as one chunk when
\* the chunker produced none.
chunkCuts(content, lengths) ==
    IF Len(content) = 0 THEN [chunks |-> <<>>, totalSize |-> 0]
    ELSE LET r == chunkLoop(content, lengths, 0, [chunks |-> <<>>, totalSize |-> 0])
         IN  IF Len(r.chunks) = 0
             THEN [chunks |-> <<[Hash |-> GetHash(content), Size |-> Len(content),
                                 Data |-> content]>>,
                   totalSize |-> Len(content)]
             ELSE r

\* ------------------------------------------------------------------ the repository on disk

\* .btool as the commands see it: index.json, packs/, their .bak and .tmp
\* variants during a prune, snaps/ and meta/counter.
NoFile == [st |-> "absent", map |-> EmptyMap]
NoDir == [exists |-> FALSE, files |-> EmptyMap]
EmptyDir == [exists |-> TRUE, files |-> EmptyMap]

EmptyRepo ==
    [index |-> NoFile, packs |-> NoDir,
     indexBak |-> NoFile, packsBak |-> NoDir,
     indexTmp |-> NoFile, packsTmp |-> NoDir,
     snaps |-> NoDir,
     counter |-> [st |-> "absent", content |-> <<>>]]

\* EnsureBtoolDirs: mkdir -p of snaps/ and packs/.
EnsureBtoolDirs(disk) ==
    [disk EXCEPT !.snaps = IF @.exists THEN @ ELSE EmptyDir,
                 !.packs = IF @.exists THEN @ ELSE EmptyDir]

\* ------------------------------------------------------------------ object store

NewObjectStore == [packIndex |-> EmptyMap, pendingObjects |-> EmptyMap, indexLoaded |-> FALSE]

\* loadIndex: read index.json once; a missing file is an empty index, a file
\* that does not parse is an error.
loadIndex(s, disk) ==
    IF s.indexLoaded THEN [s |-> s, err |-> FALSE]
    ELSE IF disk.index.st = "absent" THEN [s |-> [s EXCEPT !.indexLoaded = TRUE], err |-> FALSE]
    ELSE IF disk.index.st = "torn" THEN [s |-> s, err |-> TRUE]
    ELSE [s |-> [s EXCEPT !.packIndex = disk.index.map @@ @, !.indexLoaded = TRUE],
          err |-> FALSE]

\* WriteObject that does not look the digest up in the loaded index.
writeUnindexed(s, ld, hash, data) ==
    IF ld.err THEN [s |-> s, hash |-> 0, err |-> TRUE]
    ELSE IF hash \in DOMAIN ld.s.pendingObjects THEN [s |-> ld.s, hash |-> hash, err |-> FALSE]
    ELSE [s |-> [ld.s EXCEPT !.pendingObjects = (hash :> data) @@ @],
          hash |-> hash, err |-> FALSE]

\* WriteObject past its loadIndex call: ld is what loadIndex returned and hash
\* the digest of data.
writeLoaded(s, ld, hash, data) ==
    IF ld.err THEN [s |-> s, hash |-> 0, err |-> TRUE]
    ELSE IF hash \in DOMAIN ld.s.packIndex THEN [s |-> ld.s, hash |-> hash, err |-> FALSE]
    ELSE IF hash \in DOMAIN ld.s.pendingObjects THEN [s |-> ld.s, hash |-> hash, err |-> FALSE]
    ELSE [s |-> [ld.s EXCEPT !.pendingObjects = (hash :> data) @@ @],
          hash |-> hash, err |-> FALSE]

WriteObject(s, disk, data) == writeLoaded(s, loadIndex(s, disk), GetHash(data), data)

\* The places where Commit can stop: the packfile write fails having written
\* nothing or a truncated file, the index write fails leaving the old file or
\* a truncated one.
CommitStops == {"pack_none", "pack_torn", "index_none", "index_torn"}

\* A layout loop that goes through the digests from the last to the first.
RECURSIVE layoutBackwards(_, _, _, _)
layoutBackwards(pending, hashes, i, acc) ==
    IF i > Len(hashes) THEN acc
    ELSE layoutBackwards(pending, hashes, i + 1,
             [packBuffer |-> acc.packBuffer \o pending[hashes[Len(hashes) + 1 - i]],
              newEntries |-> (hashes[Len(hashes) + 1 - i] :>
                                 [Offset |-> Len(acc.packBuffer),
                                  Length |-> Len(pending[hashes[Len(hashes) + 1 - i]])])
                             @@ acc.newEntries])

\* Commit's layout loop: the pending objects in ascending digest order, each
\* at the offset where the previous one ended.
RECURSIVE packLayout(_, _, _, _)
packLayout(pending, hashes, i, acc) ==
    IF i > Len(hashes) THEN acc
    ELSE packLayout(pending, hashes, i + 1,
             [packBuffer |-> acc.packBuffer \o pending[hashes[i]],
              newEntries |-> (hashes[i] :> [Offset |-> Len(acc.packBuffer),
                                            Length |-> Len(pending[hashes[i]])])
                             @@ acc.newEntries])

\* Commit's last step: s2 holds the updated in-memory index, packed is the
\* disk with the new packfile, n the packfile's size; index.json is rewritten
\* in place.
commitSave(packed, stop, n, s2) ==
    IF stop = "index_none"
    THEN [s |-> s2, disk |-> packed, n |-> 0, err |-> TRUE, stopped |-> TRUE]
    ELSE IF stop = "index_torn"
    THEN [s |-> s2, disk |-> [packed EXCEPT !.index = [st |-> "torn", map |-> EmptyMap]],
          n |-> 0, err |-> TRUE, stopped |-> TRUE]
    ELSE [s |-> [s2 EXCEPT !.pendingObjects = EmptyMap],
          disk |-> [packed EXCEPT !.index = [st |-> "ok", map |-> s2.packIndex]],
          n |-> n, err |-> FALSE, stopped |-> FALSE]

\* A Commit that saves an index of the new entries alone.
commitAnew(s, packed, stop, lay, packHash, ld) ==
    IF ld.err
    THEN [s |-> s, disk |-> packed, n |-> 0, err |-> TRUE, stopped |-> FALSE]
    ELSE commitSave(packed, stop, Len(lay.packBuffer),
             [ld.s EXCEPT !.packIndex =
                 [h \in DOMAIN lay.newEntries |->
                     PackIndexEntry(packHash, lay.newEntries[h].Offset,
                                    lay.newEntries[h].Length)]])

\* Commit after the packfile is on disk: ld is loadIndex's result; the new
\* entries go into the in-memory index.
commitLoaded(s, packed, stop, lay, packHash, ld) ==
    IF ld.err
    THEN [s |-> s, disk |-> packed, n |-> 0, err |-> TRUE, stopped |-> FALSE]
    ELSE commitSave(packed, stop, Len(lay.packBuffer),
             [ld.s EXCEPT !.packIndex =
                 [h \in DOMAIN lay.newEntries |->
                     PackIndexEntry(packHash, lay.newEntries[h].Offset,
                                    lay.newEntries[h].Length)] @@ @])

\* Commit's packfile write: the file is named by the digest of its bytes.
commitWrite(s, disk, stop, lay, packHash) ==
    IF stop = "pack_none"
    THEN [s |-> s, disk |-> disk, n |-> 0, err |-> TRUE, stopped |-> TRUE]
    ELSE IF stop = "pack_torn"
    THEN [s |-> s, disk |-> [disk EXCEPT !.packs.files = (packHash :> <<>>) @@ @],
          n |-> 0, err |-> TRUE, stopped |-> TRUE]
    ELSE commitLoaded(s, [disk EXCEPT !.packs.files = (packHash :> lay.packBuffer) @@ @],
                      stop, lay, packHash,
                      loadIndex(s, [disk EXCEPT !.packs.files = (packHash :> lay.packBuffer) @@ @]))

\* A Commit that writes a packfile and the index whatever is pending.
commitEager(s, disk, stop) ==
    IF ~disk.packs.exists
    THEN [s |-> s, disk |-> disk, n |-> 0, err |-> TRUE, stopped |-> FALSE]
    ELSE LET lay == packLayout(s.pendingObjects, SortedSeq(DOMAIN s.pendingObjects), 1,
                               [packBuffer |-> <<>>, newEntries |-> EmptyMap])
         IN  commitWrite(s, disk, stop, lay, GetHash(lay.packBuffer))

\* Commit: [s, disk, n, err, stopped]; stopped tells whether the place `stop`
\* was reached.
Commit(s, disk, stop) ==
    IF DOMAIN s.pendingObjects = {}
    THEN [s |-> s, disk |-> disk, n |-> 0, err |-> FALSE, stopped |-> FALSE]
    ELSE IF ~disk.packs.exists
    THEN [s |-> s, disk |-> disk, n |-> 0, err |-> TRUE, stopped |-> FALSE]
    ELSE LET lay == packLayout(s.pendingObjects, SortedSeq(DOMAIN s.pendingObjects), 1,
                               [packBuffer |-> <<>>, newEntries |-> EmptyMap])
         IN  commitWrite(s, disk, stop, lay, GetHash(lay.packBuffer))

\* ReadObjectAsBuffer past its loadIndex call: the index lookup, then Length
\* bytes at Offset of the packfile the entry names.
readLoaded(s, disk, hash, ld) ==
    IF ld.err THEN [s |-> s, data |-> <<>>, err |-> "index unreadable"]
    ELSE IF hash \notin DOMAIN ld.s.packIndex
    THEN [s |-> ld.s, data |-> <<>>, err |-> "not found in index"]
    ELSE LET entry == ld.s.packIndex[hash] IN
         IF ~disk.packs.exists \/ entry.PackHash \notin DOMAIN disk.packs.files
         THEN [s |-> ld.s, data |-> <<>>, err |-> "open packfile"]
         ELSE IF entry.Offset + entry.Length > Len(disk.packs.files[entry.PackHash])
         THEN [s |-> ld.s, data |-> <<>>, err |-> "short read"]
         ELSE [s |-> ld.s, err |-> "none",
               data |-> SubSeq(disk.packs.files[entry.PackHash],
                               entry.Offset + 1, entry.Offset + entry.Length)]

\* A read that goes to the index without looking at the pending objects.
readCommitted(s, disk, hash) == readLoaded(s, disk, hash, loadIndex(s, disk))

\* ReadObjectAsBuffer: pending bytes first, then the packfile the index names.
ReadObjectAsBuffer(s, disk, hash) ==
    IF hash \in DOMAIN s.pendingObjects
    THEN [s |-> s, data |-> s.pendingObjects[hash], err |-> "none"]
    ELSE readLoaded(s, disk, hash, loadIndex(s, disk))

\* GetIndex: a copy of the loaded index.
GetIndex(s, disk) ==
    LET ld == loadIndex(s, disk) IN [s |-> ld.s, index |-> ld.s.packIndex, err |-> ld.err]


\* ------------------------------------------------------------------ directory trees

\* A directory is a function from entry names to nodes; a node is a regular
\* file (data, mode) or a directory (entries, mode).
FileNode(data, mode) == [type |-> "file", mode |-> mode, data |-> data, entries |-> EmptyMap]
DirNode(entries, mode) == [type |-> "dir", mode |-> mode, data |-> <<>>, entries |-> entries]
\* A directory entry that is neither: a symbolic link, a FIFO, a device, a socket.
SpecialNode(type) == [type |-> type, mode |-> 511, data |-> <<>>, entries |-> EmptyMap]

\* ------------------------------------------------------------------ snap

\* findAllFiles: the paths of the regular files below dir, by WalkDir.
RECURSIVE findAllFiles(_, _)
findAllFiles(dir, path) ==
    UNION {IF dir[n].type = "dir" THEN findAllFiles(dir[n].entries, Append(path, n))
           ELSE IF dir[n].type = "file" THEN {Append(path, n)}
           ELSE {} : n \in DOMAIN dir}

\* The node at a path below dir.
RECURSIVE NodeAt(_, _)
NodeAt(dir, path) ==
    IF Len(path) = 1 THEN dir[path[1]] ELSE NodeAt(dir[path[1]].entries, Tail(path))

\* One worker's work on one file: chunk it, write every chunk, write the manifest.
RECURSIVE writeChunks(_, _, _, _)
chunkWritten(s, disk, chunks, i, w) ==
    IF w.err THEN [s |-> s, err |-> TRUE] ELSE writeChunks(w.s, disk, chunks, i + 1)

writeChunks(s, disk, chunks, i) ==
    IF i > Len(chunks) THEN [s |-> s, err |-> FALSE]
    ELSE chunkWritten(s, disk, chunks, i, WriteObject(s, disk, chunks[i].Data))

chunksWritten(s, disk, ch, wc) ==
    IF wc.err THEN [s |-> s, ManifestHash |-> 0, TotalSize |-> 0, err |-> TRUE]
    ELSE LET wm == WriteObject(wc.s, disk,
                       MarshalManifest([i \in 1..Len(ch.chunks) |->
                                           ChunkRef(ch.chunks[i].Hash, ch.chunks[i].Size)],
                                       ch.totalSize))
         IN  IF wm.err THEN [s |-> s, ManifestHash |-> 0, TotalSize |-> 0, err |-> TRUE]
             ELSE [s |-> wm.s, ManifestHash |-> wm.hash, TotalSize |-> ch.totalSize,
                   err |-> FALSE]

processFile(s, disk, content) ==
    LET ch == ChunkFile(content)
    IN  chunksWritten(s, disk, ch, writeChunks(s, disk, ch.chunks, 1))

\* processFilesConcurrently, as the workers taking the files one after another:
\* the store serialises the writes, and the result maps and sums do not depend
\* on the order.
RECURSIVE processFilesConcurrently(_, _, _, _)
fileProcessed(disk, dir, rest, acc, f, r) ==
    IF r.err THEN [acc EXCEPT !.err = TRUE]
    ELSE processFilesConcurrently(disk, dir, rest,
             [s |-> r.s, fileHashes |-> (f :> r.ManifestHash) @@ acc.fileHashes,
              totalSourceSize |-> acc.totalSourceSize + r.TotalSize, err |-> FALSE])

processFilesConcurrently(disk, dir, files, acc) ==
    IF files = {} THEN acc
    ELSE LET f == CHOOSE x \in files : TRUE
         IN  fileProcessed(disk, dir, files \ {f}, acc, f,
                           processFile(acc.s, disk, NodeAt(dir, f).data))

\* buildTree: the subdirectories first, then one Tree object with the entries
\* sorted by name; an entry that is no directory must have a manifest hash.
RECURSIVE buildTree(_, _, _, _, _)
RECURSIVE buildEntries(_, _, _, _, _, _, _, _)
subTreeBuilt(s, disk, dir, path, fileHashes, names, i, entries, sub) ==
    IF sub.err THEN [s |-> s, entries |-> entries, err |-> TRUE]
    ELSE buildEntries(sub.s, disk, dir, path, fileHashes, names, i + 1,
             Append(entries, TreeEntry(names[i], sub.hash, JsonTags.tree,
                                       Perm(dir[names[i]].mode))))

buildEntries(s, disk, dir, path, fileHashes, names, i, entries) ==
    IF i > Len(names) THEN [s |-> s, entries |-> entries, err |-> FALSE]
    ELSE LET fullPath == Append(path, names[i]) IN
         IF dir[names[i]].type = "dir"
         THEN subTreeBuilt(s, disk, dir, path, fileHashes, names, i, entries,
                  buildTree(s, disk, dir[names[i]].entries, fullPath, fileHashes))
         ELSE IF fullPath \notin DOMAIN fileHashes
         THEN [s |-> s, entries |-> entries, err |-> TRUE]
         ELSE buildEntries(s, disk, dir, path, fileHashes, names, i + 1,
                  Append(entries, TreeEntry(names[i], fileHashes[fullPath], JsonTags.blob,
                                            Perm(dir[names[i]].mode))))

entriesBuilt(s, disk, r) ==
    IF r.err THEN [s |-> s, hash |-> 0, err |-> TRUE]
    ELSE LET w == WriteObject(r.s, disk, MarshalTree(r.entries))
         IN  IF w.err THEN [s |-> s, hash |-> 0, err |-> TRUE]
             ELSE [s |-> w.s, hash |-> w.hash, err |-> FALSE]

buildTree(s, disk, dir, path, fileHashes) ==
    entriesBuilt(s, disk,
        buildEntries(s, disk, dir, path, fileHashes, SortedSeq(DOMAIN dir), 1, <<>>))

\* ------------------------------------------------------------------ the ID counter

\* strconv.FormatInt(n, 10): the decimal digits of n.
RECURSIVE FormatInt(_)
FormatInt(n) == IF n < 10 THEN <<n>> ELSE FormatInt(n \div 10) \o <<n % 10>>

\* strconv.ParseInt(s, 10, 64) on a string of characters 0..15 (hex digits):
\* it fails on the empty string and on any character that is no decimal digit.
RECURSIVE digitsValue(_, _)
digitsValue(str, acc) ==
    IF str = <<>> THEN acc ELSE digitsValue(Tail(str), acc * 10 + Head(str))

ParseInt(str) ==
    IF str # <<>> /\ \A i \in 1..Len(str) : str[i] < 10
    THEN [ok |-> TRUE, n |-> digitsValue(str, 0)]
    ELSE [ok |-> FALSE, n |-> 0]

\* The space character, which stands for all white space, and
\* strings.TrimSpace: the string without its leading and trailing white space.
Space == 32

RECURSIVE TrimLeft(_)
TrimLeft(str) ==
    IF str # <<>> /\ Head(str) = Space THEN TrimLeft(Tail(str)) ELSE str

RECURSIVE TrimRight(_)
TrimRight(str) ==
    IF str # <<>> /\ str[Len(str)] = Space THEN TrimRight(SubSeq(str, 1, Len(str) - 1))
    ELSE str

TrimSpace(str) == TrimRight(TrimLeft(str))

\* A getNextSnapID that parses the file's content as it is.
parseUntrimmed(disk) ==
    IF disk.counter.st = "absent" THEN [id |-> 1, err |-> FALSE]
    ELSE IF disk.counter.content = <<>> THEN [id |-> 1, err |-> FALSE]
    ELSE LET p == ParseInt(disk.counter.content)
         IN  IF p.ok THEN [id |-> p.n, err |-> FALSE] ELSE [id |-> 0, err |-> TRUE]

\* getNextSnapID: 1 when the counter file is absent, empty or white space.
getNextSnapID(disk) ==
    IF disk.counter.st = "absent" THEN [id |-> 1, err |-> FALSE]
    ELSE IF TrimSpace(disk.counter.content) = <<>> THEN [id |-> 1, err |-> FALSE]
    ELSE LET p == ParseInt(TrimSpace(disk.counter.content))
         IN  IF p.ok THEN [id |-> p.n, err |-> FALSE] ELSE [id |-> 0, err |-> TRUE]

GetNextSnapID(disk) == getNextSnapID(disk)

\* IncrementNextSnapID: write current + 1 with os.WriteFile, which truncates
\* the file before it writes; stop tells where the write fails, if it does.
IncrementNextSnapID(disk, stop) ==
    LET cur == getNextSnapID(disk) IN
    IF cur.err THEN [disk |-> disk, err |-> TRUE, stopped |-> FALSE]
    ELSE IF stop = "bump_none" THEN [disk |-> disk, err |-> TRUE, stopped |-> TRUE]
    ELSE IF stop = "bump_torn"
    THEN [disk |-> [disk EXCEPT !.counter = [st |-> "ok", content |-> <<>>]],
          err |-> TRUE, stopped |-> TRUE]
    ELSE [disk |-> [disk EXCEPT !.counter = [st |-> "ok", content |-> FormatInt(cur.id + 1)]],
          err |-> FALSE, stopped |-> FALSE]


\* ------------------------------------------------------------------ snapshot catalog

\* One parsed snapshot file: the SnapDetail GetSortedSnaps builds, or invalid.
\* The file name is the hex digest plus ".json"; a timestamp of 0 stands for a
\* string time.Parse rejects.
snapRecord(h, d) ==
    [valid |-> d.ok /\ d.Timestamp > 0, ID |-> d.ID, Hash |-> h,
     Timestamp |-> d.Timestamp, Message |-> d.Message, RootTreeHash |-> d.RootTreeHash,
     SourceSize |-> d.SourceSize, SnapSize |-> d.SnapSize]

snapDetail(disk, h) == snapRecord(h, UnmarshalSnap(disk.snaps.files[h]))

\* sort.Slice by ID over the entries in ReadDir (file name) order: an insertion
\* sort at these lengths, so equal IDs stay in file name order.
RECURSIVE sortByID(_)
sortByID(details) ==
    IF details = {} THEN <<>>
    ELSE LET m == CHOOSE x \in details : \A y \in details :
                      \/ x.ID < y.ID
                      \/ x.ID = y.ID /\ x.Hash <= y.Hash
         IN  <<m>> \o sortByID(details \ {m})

\* An entry os.ReadDir lists: its name is the stem (a digest, shown in hex)
\* with the extension; Readable tells whether os.ReadFile succeeds on it.
DirEntry(stem, ext, isDir, readable, content) ==
    [Stem |-> stem, Ext |-> ext, IsDir |-> isDir, Readable |-> readable, Content |-> content]

\* os.ReadDir on snaps/ as the commands leave it: regular readable files, each
\* named by a digest and ".json".
ReadDir(dir) == {DirEntry(h, ".json", FALSE, TRUE, dir.files[h]) : h \in DOMAIN dir.files}

\* GetSortedSnaps on the entries of snaps/: directories and names without
\* ".json" are passed over, files that cannot be read, do not parse or hold a
\* timestamp time.Parse rejects are skipped; what is left is sorted by ID.  A
\* missing directory is an empty list.
listDir(exists, dirEntries) ==
    IF ~exists THEN <<>>
    ELSE sortByID({d \in {snapRecord(e.Stem, UnmarshalSnap(e.Content)) :
                             e \in {x \in dirEntries :
                                        ~x.IsDir /\ x.Ext = ".json" /\ x.Readable}} :
                      d.valid})

GetSortedSnaps(disk) == listDir(disk.snaps.exists, ReadDir(disk.snaps))

NoSnap ==
    [valid |-> FALSE, ID |-> 0, Hash |-> 0, Timestamp |-> 0, Message |-> 0,
     RootTreeHash |-> 0, SourceSize |-> 0, SnapSize |-> 0]

\* The first of the snaps at the positions in S.
firstAt(snaps, S) == snaps[CHOOSE i \in S : \A j \in S : i <= j]

\* A search that takes an ID no snap has for the newest snap.
findLoose(snaps, snapIdentifier) ==
    LET snapID  == ParseInt(snapIdentifier)
        byID    == {i \in 1..Len(snaps) : snaps[i].ID = snapID.n}
        matches == {i \in 1..Len(snaps) : IsPrefix(snapIdentifier, HexOf(snaps[i].Hash))}
    IN  IF Len(snaps) = 0 THEN [snap |-> NoSnap, err |-> "no snaps found to search from"]
        ELSE IF snapID.ok
        THEN IF byID # {} THEN [snap |-> firstAt(snaps, byID), err |-> "none"]
             ELSE [snap |-> snaps[Len(snaps)], err |-> "none"]
        ELSE IF Cardinality(matches) = 1
        THEN [snap |-> firstAt(snaps, matches), err |-> "none"]
        ELSE IF Cardinality(matches) > 1 THEN [snap |-> NoSnap, err |-> "ambiguous"]
        ELSE [snap |-> NoSnap, err |-> "no snap found"]

\* FindSnap's search in the sorted snaps: an identifier strconv.ParseInt
\* accepts is an ID and selects the first snap that has it, anything else is a
\* hash prefix and must match exactly one snap.
findIn(snaps, snapIdentifier) ==
    LET snapID  == ParseInt(snapIdentifier)
        byID    == {i \in 1..Len(snaps) : snaps[i].ID = snapID.n}
        matches == {i \in 1..Len(snaps) : IsPrefix(snapIdentifier, HexOf(snaps[i].Hash))}
    IN  IF Len(snaps) = 0 THEN [snap |-> NoSnap, err |-> "no snaps found to search from"]
        ELSE IF snapID.ok
        THEN IF byID # {} THEN [snap |-> firstAt(snaps, byID), err |-> "none"]
             ELSE [snap |-> NoSnap, err |-> "no snap found"]
        ELSE IF Cardinality(matches) = 1
        THEN [snap |-> firstAt(snaps, matches), err |-> "none"]
        ELSE IF Cardinality(matches) > 1 THEN [snap |-> NoSnap, err |-> "ambiguous"]
        ELSE [snap |-> NoSnap, err |-> "no snap found"]

FindSnap(disk, snapIdentifier) == findIn(GetSortedSnaps(disk), snapIdentifier)

\* ------------------------------------------------------------------ the snap command

\* Where Snap can stop besides inside Commit: the write of the snapshot file
\* fails having written nothing or a truncated file; the counter write fails.
SnapStops == CommitStops \cup {"manifest_none", "manifest_torn", "bump_none", "bump_torn"}

\* Snap returning an error from the disk d; st tells whether the place `stop`
\* was reached.
snapFailed(d, st) ==
    [disk |-> d, err |-> TRUE, stopped |-> st, wrote |-> FALSE,
     id |-> 0, hash |-> 0, root |-> 0, warned |-> FALSE]

\* The write of the snapshot file, named by the digest of its JSON, and
\* Snap's end: the error of IncrementNextSnapID is a warning only.
snapSave(d, stop, id, root, snapJSON, snapHash) ==
    IF stop = "manifest_none" THEN snapFailed(d, TRUE)
    ELSE IF stop = "manifest_torn"
    THEN snapFailed([d EXCEPT !.snaps.files = (snapHash :> SubSeq(snapJSON, 1, 3)) @@ @], TRUE)
    ELSE LET inc == IncrementNextSnapID(
                        [d EXCEPT !.snaps.files = (snapHash :> snapJSON) @@ @], stop)
         IN  [disk |-> inc.disk, err |-> FALSE, stopped |-> inc.stopped, wrote |-> TRUE,
              id |-> id, hash |-> snapHash, root |-> root, warned |-> inc.err]

\* Snap after Commit: the next ID is read and the snapshot object is built.
snapNumbered(pf, bt, cm, t, message, stop, nx) ==
    IF nx.err THEN snapFailed(cm.disk, FALSE)
    ELSE LET snapJSON == MarshalSnap([ID |-> nx.id, Timestamp |-> t,
                                      RootTreeHash |-> bt.hash, Message |-> message,
                                      SourceSize |-> pf.totalSourceSize, SnapSize |-> cm.n])
         IN  snapSave(cm.disk, stop, nx.id, bt.hash, snapJSON, GetHash(snapJSON))

snapCommitted(pf, bt, t, message, stop, cm) ==
    IF cm.err THEN snapFailed(cm.disk, cm.stopped)
    ELSE snapNumbered(pf, bt, cm, t, message, stop, GetNextSnapID(cm.disk))

snapTree(d1, pf, t, message, stop, bt) ==
    IF bt.err THEN snapFailed(d1, FALSE)
    ELSE snapCommitted(pf, bt, t, message, stop, Commit(bt.s, d1, stop))

snapFiles(d1, dir, t, message, stop, pf) ==
    IF pf.err THEN snapFailed(d1, FALSE)
    ELSE snapTree(d1, pf, t, message, stop, buildTree(pf.s, d1, dir, <<>>, pf.fileHashes))

\* Snap on the directory tree dir at wall-clock second t.  The result tells the
\* disk it leaves, whether it returned an error, whether the place `stop` was
\* reached, and the ID and digest of the snapshot file it wrote.
Snap(disk, dir, t, message, stop) ==
    snapFiles(EnsureBtoolDirs(disk), dir, t, message, stop,
        processFilesConcurrently(EnsureBtoolDirs(disk), dir, findAllFiles(dir, <<>>),
            [s |-> NewObjectStore, fileHashes |-> EmptyMap,
             totalSourceSize |-> 0, err |-> FALSE]))

\* ------------------------------------------------------------------ the prune command

\* markReachableObjects, with the sync.Map as a set: LoadOrStore on the start
\* hash, then the object's bytes probed as a Tree and as a FileManifest.
RECURSIVE markReachableObjects(_, _, _, _)
RECURSIVE markEntries(_, _, _, _, _)
entryMarked(s, disk, entries, i, r) ==
    IF r.err THEN r ELSE markEntries(s, disk, entries, i + 1, r.live)

markEntries(s, disk, entries, i, live) ==
    IF i > Len(entries) THEN [live |-> live, err |-> FALSE]
    ELSE entryMarked(s, disk, entries, i, markReachableObjects(s, disk, entries[i].Hash, live))

markObject(s, disk, live1, tree, manifest) ==
    IF tree.ok /\ Len(tree.Entries) > 0
    THEN markEntries(s, disk, tree.Entries, 1, live1)
    ELSE IF manifest.ok /\ Len(manifest.Chunks) > 0
    THEN [live |-> live1 \cup {manifest.Chunks[i].Hash : i \in 1..Len(manifest.Chunks)},
          err |-> FALSE]
    ELSE [live |-> live1, err |-> FALSE]

markRead(s, disk, live1, rd) ==
    IF rd.err # "none" THEN [live |-> live1, err |-> TRUE]
    ELSE markObject(s, disk, live1, UnmarshalTree(rd.data), UnmarshalManifest(rd.data))

markReachableObjects(s, disk, startHash, liveHashes) ==
    IF startHash \in liveHashes THEN [live |-> liveHashes, err |-> FALSE]
    ELSE markRead(s, disk, liveHashes \cup {startHash},
                  ReadObjectAsBuffer(s, disk, startHash))

\* The mark phase with the per-snapshot tasks run one after another in the
\* order given.
RECURSIVE markPhase(_, _, _, _, _)
rootMarked(s, disk, roots, i, r) ==
    IF r.err THEN r ELSE markPhase(s, disk, roots, i + 1, r.live)

markPhase(s, disk, roots, i, live) ==
    IF i > Len(roots) THEN [live |-> live, err |-> FALSE]
    ELSE rootMarked(s, disk, roots, i, markReachableObjects(s, disk, roots[i], live))


\* Where Prune can stop, each named after the step it does not complete: a
\* packfile copy, the write of index.tmp.json, the four renames of the swap,
\* the removal of the backups, the removal of the pruned snapshot files.
PruneStops == {"copy", "tmpindex", "bak_packs", "bak_index", "act_packs", "act_index",
               "rm_bak", "rm_snaps"}

\* Stopping at one of these by an I/O error does not end Prune: the code
\* ignores the error and goes on.
PruneIgnored == {"rm_bak", "rm_snaps"}

\* A copy of every packfile there is into packs.tmp.
copyEvery(d, packsToKeep) ==
    [d EXCEPT !.packsTmp = [exists |-> TRUE, files |-> d.packs.files]]

\* The steps of the sweep and of the swap, each on the disk the step before
\* left: the kept packfiles copied into packs.tmp, index.tmp.json written,
\* old backups removed, packs and index.json renamed to their backups, the
\* temporaries renamed into place.
copyPacks(d, packsToKeep) ==
    [d EXCEPT !.packsTmp =
        [exists |-> TRUE,
         files |-> [pk \in packsToKeep \cap DOMAIN d.packs.files |-> d.packs.files[pk]]]]

removeBackups(d) == [d EXCEPT !.packsBak = NoDir, !.indexBak = NoFile]

backupPacks(d) == IF d.packs.exists THEN [d EXCEPT !.packsBak = d.packs, !.packs = NoDir] ELSE d

backupIndex(d) ==
    IF d.index.st # "absent" THEN [d EXCEPT !.indexBak = d.index, !.index = NoFile] ELSE d

\* The swap from the disk on which the temporaries are complete.
pruneSwap(run, d3) ==
    LET d5 == backupIndex(backupPacks(d3))
        d6 == [d5 EXCEPT !.packs = d5.packsTmp, !.packsTmp = NoDir]
    IN  [run EXCEPT !.tmpIndex = d3,
                    !.bakPacks = backupPacks(d3),
                    !.bakIndex = d5,
                    !.actPacks = d6,
                    !.actIndex = [d6 EXCEPT !.index = d6.indexTmp, !.indexTmp = NoFile]]

\* The sweep: the new index holds the live hashes the current index knows, and
\* the packfiles it names are kept.
pruneSweep(disk, run, newIndex, packsToKeep) ==
    pruneSwap([run EXCEPT !.packsToKeep = packsToKeep,
                          !.copyFails = \/ ~disk.packs.exists /\ packsToKeep # {}
                                        \/ \E pk \in packsToKeep : pk \notin DOMAIN disk.packs.files,
                          !.tmpDir = [disk EXCEPT !.packsTmp = EmptyDir],
                          !.copied = copyPacks(disk, packsToKeep)],
              removeBackups([copyPacks(disk, packsToKeep) EXCEPT
                                !.indexTmp = [st |-> "ok", map |-> newIndex]]))

\* A sweep that keeps every entry of the current index.
pruneUnswept(disk, run, mk, cur) ==
    pruneSweep(disk, [run EXCEPT !.markErr = mk.err \/ cur.err, !.live = mk.live],
               cur.index, {cur.index[h].PackHash : h \in DOMAIN cur.index})

\* The sweep's new index: the entries of the live hashes the current index
\* has, and the packfiles they name.
pruneMarked(disk, run, mk, cur) ==
    LET newIndex == [h \in mk.live \cap DOMAIN cur.index |-> cur.index[h]]
    IN  pruneSweep(disk, [run EXCEPT !.markErr = mk.err \/ cur.err, !.live = mk.live],
                   newIndex, {newIndex[h].PackHash : h \in DOMAIN newIndex})

\* The partition of the snapshots and the mark phase over the kept ones.
prunePartition(disk, keepFrom, order, snapsToKeep, snapsToPrune) ==
    pruneMarked(disk,
        [findErr |-> FALSE, keepFrom |-> keepFrom,
         kept |-> {snapsToKeep[i].Hash : i \in 1..Len(snapsToKeep)},
         pruned |-> {snapsToPrune[i].Hash : i \in 1..Len(snapsToPrune)},
         markErr |-> FALSE, live |-> {}, packsToKeep |-> {}, copyFails |-> FALSE,
         tmpDir |-> disk, copied |-> disk, tmpIndex |-> disk, bakPacks |-> disk,
         bakIndex |-> disk, actPacks |-> disk, actIndex |-> disk],
        markPhase(NewObjectStore, disk,
                  [i \in 1..Len(snapsToKeep) |-> snapsToKeep[order[i]].RootTreeHash], 1, {}),
        GetIndex(NewObjectStore, disk))

\* A partition that puts the snapshot to keep from among the pruned ones.
pruneAfter(disk, order, allSnaps, found) ==
    IF found.err # "none"
    THEN [findErr |-> TRUE, keepFrom |-> found.snap, kept |-> {}, pruned |-> {},
          markErr |-> FALSE, live |-> {}, packsToKeep |-> {}, copyFails |-> FALSE,
          tmpDir |-> disk, copied |-> disk, tmpIndex |-> disk, bakPacks |-> disk,
          bakIndex |-> disk, actPacks |-> disk, actIndex |-> disk]
    ELSE LET keepFromIndex == CHOOSE i \in 1..Len(allSnaps) :
                                  /\ allSnaps[i].Hash = found.snap.Hash
                                  /\ \A j \in 1..(i - 1) : allSnaps[j].Hash # found.snap.Hash
         IN  prunePartition(disk, found.snap, order,
                            SubSeq(allSnaps, keepFromIndex + 1, Len(allSnaps)),
                            SubSeq(allSnaps, 1, keepFromIndex))

pruneFrom(disk, order, allSnaps, found) ==
    IF found.err # "none"
    THEN [findErr |-> TRUE, keepFrom |-> found.snap, kept |-> {}, pruned |-> {},
          markErr |-> FALSE, live |-> {}, packsToKeep |-> {}, copyFails |-> FALSE,
          tmpDir |-> disk, copied |-> disk, tmpIndex |-> disk, bakPacks |-> disk,
          bakIndex |-> disk, actPacks |-> disk, actIndex |-> disk]
    ELSE LET keepFromIndex == CHOOSE i \in 1..Len(allSnaps) :
                                  /\ allSnaps[i].Hash = found.snap.Hash
                                  /\ \A j \in 1..(i - 1) : allSnaps[j].Hash # found.snap.Hash
         IN  prunePartition(disk, found.snap, order,
                            SubSeq(allSnaps, keepFromIndex, Len(allSnaps)),
                            SubSeq(allSnaps, 1, keepFromIndex - 1))

\* The run of Prune on a repository with no I/O failure: what it decides, and
\* the disk after each of its steps.  order is the order in which the marking
\* tasks of the kept snapshots run.
pruneSteps(disk, snapIdentifier, order) ==
    pruneFrom(disk, order, GetSortedSnaps(disk), FindSnap(disk, snapIdentifier))

\* The result of Prune.
pruneResult(run, d, e, st, np) ==
    [disk |-> d, err |-> e, stopped |-> st, noop |-> np,
     keepFrom |-> run.keepFrom, kept |-> run.kept,
     pruned |-> run.pruned, live |-> run.live]

\* Prune's last steps from the disk d8 on which the backups are dealt with:
\* the pruned snapshot files in gone are removed.
pruneRemove(d8, gone) == [d8 EXCEPT !.snaps.files = [h \in DOMAIN @ \ gone |-> @[h]]]

\* Where a run of Prune ends.  how tells whether the stop is an I/O error
\* ("fail") or the end of the process ("crash"); undeleted is the set of pruned
\* snapshot files whose removal does not happen when the stop is "rm_snaps".
pruneEnd(disk, run, stop, how, undeleted) ==
    IF run.findErr THEN pruneResult(run, disk, TRUE, FALSE, FALSE)
    ELSE IF run.pruned = {} THEN pruneResult(run, disk, FALSE, FALSE, TRUE)
    ELSE IF run.markErr THEN pruneResult(run, disk, TRUE, FALSE, FALSE)
    ELSE IF stop = "copy" /\ run.packsToKeep # {} THEN pruneResult(run, run.tmpDir, TRUE, TRUE, FALSE)
    ELSE IF run.copyFails THEN pruneResult(run, run.tmpDir, TRUE, FALSE, FALSE)
    ELSE IF stop = "tmpindex" THEN pruneResult(run, run.copied, TRUE, TRUE, FALSE)
    ELSE IF stop = "bak_packs" THEN pruneResult(run, run.tmpIndex, TRUE, TRUE, FALSE)
    ELSE IF stop = "bak_index" THEN pruneResult(run, run.bakPacks, TRUE, TRUE, FALSE)
    ELSE IF stop = "act_packs" THEN pruneResult(run, run.bakIndex, TRUE, TRUE, FALSE)
    ELSE IF stop = "act_index" THEN pruneResult(run, run.actPacks, TRUE, TRUE, FALSE)
    ELSE IF stop = "rm_bak" /\ how = "crash" THEN pruneResult(run, run.actIndex, FALSE, TRUE, FALSE)
    ELSE IF stop = "rm_bak"
    THEN pruneResult(run, pruneRemove(run.actIndex, run.pruned), FALSE, TRUE, FALSE)
    ELSE IF stop = "rm_snaps"
    THEN pruneResult(run, pruneRemove(removeBackups(run.actIndex), run.pruned \ undeleted),
                     FALSE, TRUE, FALSE)
    ELSE pruneResult(run, pruneRemove(removeBackups(run.actIndex), run.pruned),
                     FALSE, FALSE, FALSE)

Prune(disk, snapIdentifier, order, stop, how, undeleted) ==
    pruneEnd(disk, pruneSteps(disk, snapIdentifier, order), stop, how, undeleted)


\* ------------------------------------------------------------------ the restore command

\* restoreFileWorker on one job.  A failed chunk read ends the loop but not
\* the job: the bytes read so far are still written.  The file is created by
\* os.WriteFile with the stored mode, which the umask filters; the write fails
\* when the directory was made read-only before the worker got to the job.
\* first is the cause of the first error the job sends to the errs channel.
RECURSIVE readChunks(_, _, _, _, _)
chunkRead(s, disk, chunks, i, acc, rd) ==
    IF rd.err # "none" THEN [content |-> acc, err |-> TRUE, cause |-> rd.err]
    ELSE readChunks(s, disk, chunks, i + 1, acc \o rd.data)

readChunks(s, disk, chunks, i, acc) ==
    IF i > Len(chunks) THEN [content |-> acc, err |-> FALSE, cause |-> "none"]
    ELSE chunkRead(s, disk, chunks, i, acc, ReadObjectAsBuffer(s, disk, chunks[i].Hash))

manifestParsed(s, disk, job, umask, readOnlyDir, manifest) ==
    IF ~manifest.ok
    THEN [written |-> FALSE, node |-> FileNode(<<>>, 0), err |-> TRUE,
          first |-> "failed to parse manifest"]
    ELSE LET rc == readChunks(s, disk, manifest.Chunks, 1, <<>>)
         IN  IF readOnlyDir
             THEN [written |-> FALSE, node |-> FileNode(<<>>, 0), err |-> TRUE,
                   first |-> IF rc.err THEN rc.cause ELSE "failed to write file"]
             ELSE [written |-> TRUE, err |-> rc.err, first |-> rc.cause,
                   node |-> FileNode(rc.content, BitAndNot(job.Mode, umask))]

manifestRead(s, disk, job, umask, readOnlyDir, rd) ==
    IF rd.err # "none"
    THEN [written |-> FALSE, node |-> FileNode(<<>>, 0), err |-> TRUE, first |-> rd.err]
    ELSE manifestParsed(s, disk, job, umask, readOnlyDir, UnmarshalManifest(rd.data))

restoreFileWorker(s, disk, job, umask, readOnlyDir) ==
    manifestRead(s, disk, job, umask, readOnlyDir,
                 ReadObjectAsBuffer(s, disk, job.ManifestHash))

\* restoreTree: a job per blob entry, a synchronous recursion and then a chmod
\* per tree entry.  lateWrites tells how the race between that chmod and the
\* workers' writes into the directory ends: TRUE when the writes come last.
\* cause is the error that ends the traversal; firsts are the first errors of
\* the jobs that fail, any of which can be the first in the errs channel.
RECURSIVE restoreTree(_, _, _, _, _, _)
RECURSIVE restoreEntries(_, _, _, _, _, _, _, _)
blobRestored(s, disk, entries, i, umask, lateWrites, readOnly, acc, w) ==
    restoreEntries(s, disk, entries, i + 1, umask, lateWrites, readOnly,
        [dir |-> IF w.written THEN (entries[i].Name :> w.node) @@ acc.dir ELSE acc.dir,
         err |-> FALSE, werr |-> acc.werr \/ w.err, cause |-> "none",
         firsts |-> IF w.err THEN acc.firsts \cup {w.first} ELSE acc.firsts])

subTreeRestored(s, disk, entries, i, umask, lateWrites, readOnly, acc, sub) ==
    IF sub.err
    THEN [dir |-> (entries[i].Name :> DirNode(sub.dir, BitAndNot(493, umask))) @@ acc.dir,
          err |-> TRUE, werr |-> acc.werr \/ sub.werr, cause |-> sub.cause,
          firsts |-> acc.firsts \cup sub.firsts]
    ELSE restoreEntries(s, disk, entries, i + 1, umask, lateWrites, readOnly,
             [dir |-> (entries[i].Name :> DirNode(sub.dir, entries[i].Mode)) @@ acc.dir,
              err |-> FALSE, werr |-> acc.werr \/ sub.werr, cause |-> "none",
              firsts |-> acc.firsts \cup sub.firsts])

restoreEntry(s, disk, entries, i, umask, lateWrites, readOnly, acc, e) ==
    IF e.Type = JsonTags.blob
    THEN blobRestored(s, disk, entries, i, umask, lateWrites, readOnly, acc,
             restoreFileWorker(s, disk, [ManifestHash |-> e.Hash, Mode |-> e.Mode],
                               umask, readOnly /\ lateWrites))
    ELSE IF e.Type = JsonTags.tree
    THEN subTreeRestored(s, disk, entries, i, umask, lateWrites, readOnly, acc,
             restoreTree(s, disk, e.Hash, umask, lateWrites, ~OwnerWrite(e.Mode)))
    ELSE restoreEntries(s, disk, entries, i + 1, umask, lateWrites, readOnly, acc)

restoreEntries(s, disk, entries, i, umask, lateWrites, readOnly, acc) ==
    IF i > Len(entries) THEN acc
    ELSE restoreEntry(s, disk, entries, i, umask, lateWrites, readOnly, acc, entries[i])

treeParsed(s, disk, umask, lateWrites, readOnly, tree) ==
    IF ~tree.ok
    THEN [dir |-> EmptyMap, err |-> TRUE, werr |-> FALSE, cause |-> "failed to parse tree",
          firsts |-> {}]
    ELSE restoreEntries(s, disk, tree.Entries, 1, umask, lateWrites, readOnly,
             [dir |-> EmptyMap, err |-> FALSE, werr |-> FALSE, cause |-> "none",
              firsts |-> {}])

treeRead(s, disk, umask, lateWrites, readOnly, rd) ==
    IF rd.err # "none"
    THEN [dir |-> EmptyMap, err |-> TRUE, werr |-> FALSE, cause |-> rd.err, firsts |-> {}]
    ELSE treeParsed(s, disk, umask, lateWrites, readOnly, UnmarshalTree(rd.data))

restoreTree(s, disk, treeHash, umask, lateWrites, readOnly) ==
    treeRead(s, disk, umask, lateWrites, readOnly, ReadObjectAsBuffer(s, disk, treeHash))

\* What an output path holds.
NoPath == [kind |-> "absent", data |-> <<>>, tree |-> EmptyMap]
FilePath(data) == [kind |-> "file", data |-> data, tree |-> EmptyMap]
DirPath(tree) == [kind |-> "dir", data |-> <<>>, tree |-> tree]

\* Restore's end: rt is what restoreTree returned on the cleaned output.
\* causes are the errors the returned one can wrap: the traversal's, or the
\* first that the workers sent.
restoreDone(cleaned, snap, rt) ==
    [disk |-> cleaned, output |-> DirPath(rt.dir), snap |-> snap,
     err |-> IF rt.err THEN "failed during tree traversal"
             ELSE IF rt.werr THEN "a restore worker failed"
             ELSE "none",
     causes |-> IF rt.err THEN {rt.cause} ELSE IF rt.werr THEN rt.firsts ELSE {"none"}]

\* Restore after os.RemoveAll and os.MkdirAll of the output path: cleaned is
\* the repository as it is then.
restoreInto(cleaned, snap, umask, lateWrites) ==
    restoreDone(cleaned, snap,
        restoreTree(NewObjectStore, cleaned, snap.RootTreeHash, umask, lateWrites, FALSE))

restoreWiped(disk, output, inPlace, umask, lateWrites, found) ==
    IF found.err # "none"
    THEN [disk |-> disk, output |-> DirPath(EmptyMap), err |-> found.err,
          snap |-> found.snap, causes |-> {found.err}]
    ELSE restoreInto(IF inPlace THEN EmptyRepo ELSE disk, found.snap, umask, lateWrites)

restoreFound(disk, output, inPlace, umask, lateWrites, found) ==
    IF found.err # "none"
    THEN [disk |-> disk, output |-> output, err |-> found.err, snap |-> found.snap,
          causes |-> {found.err}]
    ELSE restoreInto(IF inPlace THEN EmptyRepo ELSE disk, found.snap, umask, lateWrites)

\* Restore of snapIdentifier from the repository on disk into an output path
\* holding `output`.  inPlace tells that the output path is the repository's
\* own directory, so that removing it removes .btool with it.
Restore(disk, snapIdentifier, output, inPlace, umask, lateWrites) ==
    restoreFound(disk, output, inPlace, umask, lateWrites, FindSnap(disk, snapIdentifier))


\* ------------------------------------------------------------------ inputs

\* File and directory names, in the byte order os.ReadDir lists them.
Names == [a |-> 1, b |-> 2, s |-> 3]
NameA == Names.a
NameB == Names.b
NameS == Names.s

\* File contents.
BytesX == <<21>>
BytesY == <<22, 23>>

\* The tree object Snap writes for a directory holding the one file b = BytesY.
SubTreeJSON ==
    MarshalTree(<<TreeEntry(NameB,
                    GetHash(MarshalManifest(<<ChunkRef(GetHash(BytesY), Len(BytesY))>>,
                                            Len(BytesY))),
                    JsonTags.blob, 420)>>)

SubDir(mode) == DirNode((NameB :> FileNode(BytesY, 420)), mode)

\* The working directories of the life-cycle specification: a file and a
\* subdirectory; and the same with the file a holding the very bytes of the
\* tree object of the subdirectory s.
Worlds ==
    {(NameA :> FileNode(BytesX, 420)) @@ (NameS :> SubDir(493)),
     (NameA :> FileNode(SubTreeJSON, 420)) @@ (NameS :> SubDir(493))}

\* The working directories of the restore specification: file a absent, with
\* mode 0644, 0664 or empty with 0600; directory s absent, empty, or holding b,
\* with mode 0755 or 0555.
RestoreWorlds ==
    {fa @@ ds : fa \in {EmptyMap, (NameA :> FileNode(BytesX, 420)),
                        (NameA :> FileNode(BytesX, 436)),
                        (NameA :> FileNode(<<>>, 384))},
                ds \in {EmptyMap, (NameS :> DirNode(EmptyMap, 493)),
                        (NameS :> SubDir(493)), (NameS :> SubDir(365))}}

\* The process umask during a restore: none, or the usual 022.
Umasks == {0, 18}

\* What the output path of a restore holds before it.
Outputs == {NoPath, FilePath(BytesY), DirPath((NameB :> FileNode(BytesX, 420)))}

Times == 1..MaxTime
\* How a command is disturbed at a step.  Where an error ends the command, an
\* error return and the end of the process leave the same disk, and "fail"
\* stands for both; where the code ignores the error and goes on, the end of
\* the process ("crash") is an outcome of its own.
Hows(stop) == IF stop \in {"bump_none", "bump_torn", "rm_bak", "rm_snaps"}
              THEN {"fail", "crash"} ELSE {"fail"}

\* The identifiers a user can type: the decimal IDs, and for every snapshot
\* file the first PrefixLen digits of its hex digest.
PrefixLen == 2
Identifiers(d) ==
    {FormatInt(i) : i \in 1..(MaxSnaps + 1)}
    \cup (IF d.snaps.exists
          THEN {SubSeq(HexOf(h), 1, PrefixLen) : h \in DOMAIN d.snaps.files}
          ELSE {})

\* The identifier names no snap of the list: it is the decimal form of no
\* snap's ID and the beginning of no snap's digest.
NoMatch(snaps, ident) ==
    \A i \in 1..Len(snaps) :
        /\ FormatInt(snaps[i].ID) # ident
        /\ ~IsPrefix(ident, HexOf(snaps[i].Hash))

\* The orders in which up to MaxSnaps marking tasks can run.
Orders(n) == {o \in [1..n -> 1..n] : \A i, j \in 1..n : o[i] = o[j] => i = j}


\* ------------------------------------------------------------------ the state machine

VARIABLES
    disk,       \* the repository directory .btool
    work,       \* the working directory the commands are run in
    out,        \* what the output path of a restore holds
    faults,     \* how many I/O failures and crashes have happened
    last,       \* the last command: what it was and how it ended
    assigned,   \* the IDs of the snapshot files written, in order
    taken,      \* for every snapshot file written, the directory tree it was taken of
    crashed,    \* a command was ended by the end of the process at a step whose
                \* error the code ignores
    store,      \* the fields of the ObjectStore instance the workers share
    mutex,      \* the worker that holds the store's mutex, or 0
    calls,      \* for every worker, the call on the store it is in and what its
                \* last call returned
    catalog,    \* a snaps/ directory holding whatever a directory can hold
    pool,       \* the worker pool of a snap or of a restore: the jobs channel,
                \* what each worker is at, the results or errs channel
    hist        \* the same calls made one after another on a store of their own,
                \* in the order the workers left the mutex; the bytes written
                \* on this instance and the bytes committed; the worker whose
                \* call returned in the last step, or 0

storeVars == <<store, mutex, calls, hist, catalog, pool>>
vars == <<disk, work, out, faults, last, assigned, taken, crashed, store, mutex, calls, hist,
          catalog, pool>>

Workers == 1..NumWorkers

\* A worker in no call, and the history of a store on which nothing was called.
IdleCall ==
    [pc |-> "idle", op |-> "none", data |-> <<>>, hash |-> 0,
     view |-> [s |-> NewObjectStore, err |-> FALSE],
     ret |-> [op |-> "none", hash |-> 0, data |-> <<>>, err |-> "none"]]

NoHistory(d) ==
    [s |-> NewObjectStore, disk |-> d, wrote |-> {}, kept |-> {}, ops |-> 0, by |-> 0]

\* A pool worker between jobs, and the pool when no snap is running.
IdleWorker == [pc |-> "idle", file |-> <<>>, chunks |-> <<>>, totalSize |-> 0, i |-> 0]

NoPool ==
    [state |-> "off", jobs |-> <<>>, at |-> [w \in Workers |-> IdleWorker],
     results |-> <<>>, root |-> 0,
     ret |-> [fileHashes |-> EmptyMap, totalSourceSize |-> 0, err |-> FALSE]]

\* What is remembered of the last command: its result, the place it stopped
\* at, the digest of the snapshot file it was about, the IDs of the snapshots
\* it removed from the catalog, the error message it returned, the identifier
\* it was given, the snapshots it listed, the orphaned packfiles it started
\* with.
NoCommand ==
    [op |-> "none", res |-> "ok", stop |-> "none", key |-> 0,
     inPlace |-> FALSE, umask |-> 0, before |-> NoPath, ids |-> {}, msg |-> "none",
     ident |-> <<>>, list |-> <<>>, cause |-> "none", known |-> TRUE,
     chunks |-> <<>>, total |-> 0, manifest |-> <<>>, orphans |-> {}]

Outcome(stop, how, err) ==
    IF stop # "none" /\ how = "crash" THEN "crash" ELSE IF err THEN "err" ELSE "ok"

Init ==
    /\ disk = EmptyRepo
    /\ work \in Worlds
    /\ out = NoPath
    /\ faults = 0
    /\ last = NoCommand
    /\ assigned = <<>>
    /\ taken = EmptyMap
    /\ crashed = FALSE
    /\ store = NewObjectStore
    /\ mutex = 0
    /\ calls = [w \in Workers |-> IdleCall]
    /\ pool = NoPool
    /\ hist = NoHistory(EmptyRepo)
    /\ catalog = [exists |-> FALSE, entries |-> {}]

\* The user changes the working directory.
Edit ==
    /\ Len(assigned) < MaxSnaps
    /\ \E w \in Worlds \ {work} : work' = w
    /\ last' = [NoCommand EXCEPT !.op = "edit"]
    /\ UNCHANGED <<disk, out, faults, assigned, taken, crashed>>
    /\ UNCHANGED storeVars

\* btool snap, ending normally, by an I/O error at one of `stops` or by a
\* crash there.
SnapCmd(stops) ==
    /\ Len(assigned) < MaxSnaps
    /\ \E t \in Times, stop \in stops \cup {"none"} :
         /\ stop # "none" => faults < MaxFaults
         /\ LET r == Snap(disk, work, t, 0, stop) IN
            /\ stop # "none" => r.stopped
            /\ \E how \in (Hows(stop)) :
                 LET res == Outcome(stop, how, r.err) IN
                 /\ disk' = r.disk
                 /\ faults' = IF stop = "none" THEN faults ELSE faults + 1
                 /\ assigned' = IF r.wrote THEN Append(assigned, r.id) ELSE assigned
                 /\ taken' = IF r.wrote THEN (r.hash :> work) @@ taken ELSE taken
                 /\ last' = [NoCommand EXCEPT !.op = "snap", !.res = res, !.stop = stop,
                                              !.key = r.hash]
                 /\ crashed' = (crashed \/ res = "crash")
    /\ UNCHANGED <<work, out>>
    /\ UNCHANGED storeVars

SnapOp == SnapCmd(SnapStops)

\* The IDs of the snapshot files of d that e no longer has.
RemovedIDs(d, e) ==
    {snapDetail(d, h).ID : h \in DOMAIN d.snaps.files \ DOMAIN e.snaps.files}

\* The packfiles of d that no entry of its index points into.
Orphans(d) ==
    IF ~d.packs.exists THEN {}
    ELSE {p \in DOMAIN d.packs.files :
             \A h \in DOMAIN d.index.map : d.index.map[h].PackHash # p}

\* btool prune <identifier>, ending normally, by an I/O error at one of
\* `stops` or by a crash there.
PruneCmd(stops) ==
    \E ident \in Identifiers(disk) :
      LET plain == Prune(disk, ident, [i \in 1..MaxSnaps |-> i], "none", "fail", {})
          canStop == faults < MaxFaults /\ ~plain.err /\ ~plain.noop
      IN  \E order \in Orders(Cardinality(plain.kept)) :
            LET run == pruneSteps(disk, ident, order) IN
            \E stop \in (IF canStop THEN stops \cup {"none"} ELSE {"none"}) :
              \E how \in (Hows(stop)),
                 undeleted \in (IF stop = "rm_snaps" THEN SUBSET plain.pruned \ {{}}
                                ELSE {{}}) :
                LET r == pruneEnd(disk, run, stop, how, undeleted)
                    res == Outcome(stop, how, r.err)
                IN  /\ stop # "none" => r.stopped
                    /\ disk' = r.disk
                    /\ faults' = IF stop = "none" THEN faults ELSE faults + 1
                    /\ last' = [NoCommand EXCEPT !.op = "prune", !.res = res, !.stop = stop,
                                                 !.key = r.keepFrom.Hash,
                                                 !.ids = RemovedIDs(disk, r.disk),
                                                 !.msg = IF run.findErr
                                                         THEN FindSnap(disk, ident).err
                                                         ELSE "none",
                                                 !.known = ~NoMatch(GetSortedSnaps(disk),
                                                                    ident),
                                                 !.orphans = Orphans(disk)]
                    /\ crashed' = (crashed \/ res = "crash")
                    /\ UNCHANGED <<work, out, assigned, taken>>
                    /\ UNCHANGED storeVars

PruneOp == PruneCmd(PruneStops)

Next == Edit \/ SnapOp \/ PruneOp

Spec == Init /\ [][Next]_vars

\* btool restore <identifier>, into the output path or, with no output given,
\* into the directory the repository is in.
RestoreCmd(inPlaces, umasks) ==
    \E ident \in Identifiers(disk), inPlace \in inPlaces, umask \in umasks,
       lateWrites \in BOOLEAN :
      LET target == IF inPlace THEN DirPath(work) ELSE out
          r == Restore(disk, ident, target, inPlace, umask, lateWrites)
          res == IF r.err = "none" THEN "ok" ELSE "err"
      IN  /\ disk' = r.disk
          /\ work' = IF inPlace THEN r.output.tree ELSE work
          /\ out' = IF inPlace THEN out ELSE r.output
          /\ \E cause \in r.causes :
                last' = [NoCommand EXCEPT !.op = "restore", !.res = res, !.key = r.snap.Hash,
                                         !.inPlace = inPlace, !.umask = umask,
                                         !.before = target, !.msg = r.err,
                                         !.cause = cause,
                                         !.known = ~NoMatch(GetSortedSnaps(disk), ident)]
          /\ crashed' = (crashed \/ res = "crash")
          /\ UNCHANGED <<faults, assigned, taken>>
          /\ UNCHANGED storeVars

RestoreOp == RestoreCmd(BOOLEAN, Umasks)

\* The restore specification: snapshots of one working directory, taken with
\* no I/O failure and restored into an output path that is absent, a regular
\* file or a directory.
SnapClean == SnapCmd({})

InitRestore ==
    /\ disk = EmptyRepo
    /\ work \in RestoreWorlds
    /\ out \in Outputs
    /\ faults = 0
    /\ last = NoCommand
    /\ assigned = <<>>
    /\ taken = EmptyMap
    /\ crashed = FALSE
    /\ store = NewObjectStore
    /\ mutex = 0
    /\ calls = [w \in Workers |-> IdleCall]
    /\ pool = NoPool
    /\ hist = NoHistory(EmptyRepo)
    /\ catalog = [exists |-> FALSE, entries |-> {}]

NextRestore == SnapClean \/ RestoreOp

SpecRestore == InitRestore /\ [][NextRestore]_vars

\* ------------------------------------------------------------------ restore from a damaged index

\* The working directories of the damaged-index specification: a file beside
\* a subdirectory, the same with the subdirectory read-only, three files
\* of the same bytes, two of them in one directory, and a file beside a
\* symbolic link.
DamagedWorlds ==
    {(NameA :> FileNode(BytesX, 420)) @@ (NameS :> SubDir(493)),
     (NameA :> FileNode(BytesX, 420)) @@ (NameS :> SubDir(365)),
     (NameA :> FileNode(BytesY, 420)) @@ (NameB :> FileNode(BytesY, 420))
         @@ (NameS :> SubDir(493)),
     (NameA :> FileNode(BytesX, 420)) @@ (NameB :> SpecialNode("symlink"))}

\* index.json rewritten without one of its entries, as the test of a restore
\* from a damaged index does; faults counts the entries removed.
DropObject ==
    /\ disk.index.st = "ok"
    /\ faults < MaxDrops
    /\ \E objectToDelete \in DOMAIN disk.index.map :
         disk' = [disk EXCEPT !.index.map =
                     [h \in DOMAIN @ \ {objectToDelete} |-> @[h]]]
    /\ faults' = faults + 1
    /\ last' = [NoCommand EXCEPT !.op = "drop"]
    /\ UNCHANGED <<work, out, assigned, taken, crashed>>
    /\ UNCHANGED storeVars

\* A restore into the output path, with no umask.
RestoreOut == RestoreCmd({FALSE}, {0})

InitDamaged ==
    /\ disk = EmptyRepo
    /\ work \in DamagedWorlds
    /\ out = NoPath
    /\ faults = 0
    /\ last = NoCommand
    /\ assigned = <<>>
    /\ taken = EmptyMap
    /\ crashed = FALSE
    /\ store = NewObjectStore
    /\ mutex = 0
    /\ calls = [w \in Workers |-> IdleCall]
    /\ pool = NoPool
    /\ hist = NoHistory(EmptyRepo)
    /\ catalog = [exists |-> FALSE, entries |-> {}]

NextDamaged == SnapClean \/ DropObject \/ RestoreOut

SpecDamaged == InitDamaged /\ [][NextDamaged]_vars

\* ------------------------------------------------------------------ prune on a damaged index

\* A prune in which no step fails.
PruneClean == PruneCmd({})

NextSweep == SnapClean \/ DropObject \/ PruneClean

SpecSweep == InitDamaged /\ [][NextSweep]_vars

\* ------------------------------------------------------------------ the ID counter under concurrent callers

\* What the counter file holds at the start: it is absent, or it holds up to
\* three characters out of the digits 1 and 2, the space and the letter b.
CounterFiles ==
    {[st |-> "absent", content |-> <<>>]}
    \cup {[st |-> "ok", content |-> c] : c \in UNION {[1..n -> {1, 2, Space, 11}] : n \in 0..3}}

\* A metaMutex that every goroutine passes at once.
metaIgnored(m) == TRUE

\* metaMutex.Lock() goes through when no goroutine holds the mutex.
metaFree(m) == m = 0

\* GetNextSnapID, under the mutex from its first statement to its return.
PeekOp(w) ==
    /\ calls[w].pc = "idle" /\ metaFree(mutex)
    /\ calls' = [calls EXCEPT ![w].op = "peek",
                              ![w].ret = [op |-> "peek", hash |-> getNextSnapID(disk).id,
                                          data |-> <<>>,
                                          err |-> IF getNextSnapID(disk).err
                                                  THEN "corrupt counter file" ELSE "none"]]
    /\ hist' = [hist EXCEPT !.by = w]
    /\ UNCHANGED <<disk, work, out, faults, last, assigned, taken, crashed, store, mutex,
                   catalog, pool>>

\* IncrementNextSnapID takes the mutex and reads the counter; on a counter
\* that does not parse it returns the error and releases the mutex.
BumpEnter(w) ==
    /\ calls[w].pc = "idle" /\ metaFree(mutex) /\ hist.ops < MaxOps
    /\ IF getNextSnapID(disk).err
       THEN /\ calls' = [calls EXCEPT ![w].op = "bump",
                                      ![w].ret = [op |-> "bump", hash |-> 0, data |-> <<>>,
                                                  err |-> "corrupt counter file"]]
            /\ UNCHANGED mutex
       ELSE /\ calls' = [calls EXCEPT ![w].pc = "locked", ![w].op = "bump",
                                      ![w].hash = getNextSnapID(disk).id]
            /\ mutex' = w
    /\ hist' = [hist EXCEPT !.ops = @ + 1, !.by = 0]
    /\ UNCHANGED <<disk, work, out, faults, last, assigned, taken, crashed, store,
                   catalog, pool>>

\* IncrementNextSnapID writes the ID it read plus one and releases the mutex;
\* assigned lists the values the increments have stored.
BumpExit(w) ==
    /\ calls[w].pc = "locked"
    /\ disk' = [disk EXCEPT !.counter = [st |-> "ok", content |-> FormatInt(calls[w].hash + 1)]]
    /\ calls' = [calls EXCEPT ![w].pc = "idle",
                              ![w].ret = [op |-> "bump", hash |-> calls[w].hash + 1,
                                          data |-> <<>>, err |-> "none"]]
    /\ mutex' = 0
    /\ assigned' = Append(assigned, calls[w].hash + 1)
    /\ hist' = [hist EXCEPT !.by = w]
    /\ UNCHANGED <<work, out, faults, last, taken, crashed, store, catalog, pool>>

InitCounter ==
    /\ \E c \in CounterFiles : /\ disk = [EmptyRepo EXCEPT !.counter = c]
                                /\ hist = NoHistory([EmptyRepo EXCEPT !.counter = c])
    /\ work = EmptyMap
    /\ out = NoPath
    /\ faults = 0
    /\ last = NoCommand
    /\ assigned = <<>>
    /\ taken = EmptyMap
    /\ crashed = FALSE
    /\ store = NewObjectStore
    /\ mutex = 0
    /\ calls = [w \in Workers |-> IdleCall]
    /\ pool = NoPool
    /\ catalog = [exists |-> FALSE, entries |-> {}]

NextCounter == \E w \in Workers : PeekOp(w) \/ BumpEnter(w) \/ BumpExit(w)

SpecCounter == InitCounter /\ [][NextCounter]_vars

\* ------------------------------------------------------------------ the worker pool of a snap

\* The working directories of the pool specification: files of different
\* bytes at two depths; files of the same bytes; an empty file and an empty
\* directory.
PoolWorlds ==
    {(NameA :> FileNode(BytesX, 420)) @@ (NameB :> FileNode(BytesX \o BytesY, 384))
         @@ (NameS :> SubDir(493)),
     (NameA :> FileNode(BytesY, 420)) @@ (NameS :> SubDir(365)),
     (NameA :> FileNode(<<>>, 420)) @@ (NameB :> FileNode(BytesX, 420))
         @@ (NameS :> DirNode(EmptyMap, 493))}

\* findAllFiles as the slice it returns: the regular files in WalkDir's
\* lexical order, which is the order they are sent to the jobs channel in.
RECURSIVE walkFiles(_, _)
walkFiles(dir, path) ==
    Flatten([i \in 1..Cardinality(DOMAIN dir) |->
        LET n == SortedSeq(DOMAIN dir)[i] IN
        IF dir[n].type = "dir" THEN walkFiles(dir[n].entries, Append(path, n))
        ELSE IF dir[n].type = "file" THEN <<Append(path, n)>>
        ELSE <<>>])

\* The loop over the results channel, in the order the results arrived: the
\* first error ends it, otherwise every result is filed under its path.
RECURSIVE collectByArrival(_, _)
collectByArrival(results, acc) ==
    IF results = <<>> THEN acc
    ELSE IF Head(results).Err THEN [acc EXCEPT !.err = TRUE]
    ELSE collectByArrival(Tail(results),
             [acc EXCEPT !.fileHashes = (acc.files[Cardinality(DOMAIN acc.fileHashes) + 1]
                                            :> Head(results).ManifestHash) @@ @,
                         !.totalSourceSize = @ + Head(results).TotalSize])

\* A loop over the results that passes over the errors.
RECURSIVE collectLenient(_, _)
collectLenient(results, acc) ==
    IF results = <<>> THEN acc
    ELSE IF Head(results).Err THEN collectLenient(Tail(results), acc)
    ELSE collectLenient(Tail(results),
             [acc EXCEPT !.fileHashes = (Head(results).FilePath
                                            :> Head(results).ManifestHash) @@ @,
                         !.totalSourceSize = @ + Head(results).TotalSize])

RECURSIVE collectResults(_, _)
collectResults(results, acc) ==
    IF results = <<>> THEN acc
    ELSE IF Head(results).Err THEN [acc EXCEPT !.err = TRUE]
    ELSE collectResults(Tail(results),
             [acc EXCEPT !.fileHashes = (Head(results).FilePath
                                            :> Head(results).ManifestHash) @@ @,
                         !.totalSourceSize = @ + Head(results).TotalSize])

\* Snap up to the start of the workers: the directories, a new store, the
\* files found and sent to the jobs channel.
StartSnap ==
    /\ pool.state \in {"off", "done"}
    /\ Len(assigned) < MaxSnaps
    /\ disk' = EnsureBtoolDirs(disk)
    /\ store' = NewObjectStore
    /\ pool' = [NoPool EXCEPT !.state = "running", !.jobs = walkFiles(work, <<>>)]
    /\ last' = [NoCommand EXCEPT !.op = "start"]
    /\ UNCHANGED <<work, out, faults, assigned, taken, crashed, mutex, calls, hist, catalog>>

\* A worker receives the next path of the jobs channel and chunks the file;
\* when the file cannot be opened or read, it sends the error as the file's
\* result and goes on to the next job.
TakeJob(w) ==
    /\ pool.state = "running"
    /\ pool.at[w].pc = "idle"
    /\ pool.jobs # <<>>
    /\ LET ch == ChunkFile(NodeAt(work, Head(pool.jobs)).data)
       IN  \/ pool' = [pool EXCEPT !.jobs = Tail(@),
                                   !.at[w] = [pc |-> "busy", file |-> Head(pool.jobs),
                                              chunks |-> ch.chunks,
                                              totalSize |-> ch.totalSize, i |-> 1]]
           \/ pool' = [pool EXCEPT !.jobs = Tail(@),
                                   !.results = Append(@,
                                       [FilePath |-> Head(pool.jobs), ManifestHash |-> 0,
                                        TotalSize |-> 0, Err |-> TRUE])]
    /\ UNCHANGED <<disk, work, out, faults, last, assigned, taken, crashed,
                   store, mutex, calls, hist, catalog>>

\* The worker writes the next chunk of its file; an error is sent as the
\* file's result and ends the worker.
WriteChunk(w) ==
    /\ pool.state = "running"
    /\ pool.at[w].pc = "busy"
    /\ pool.at[w].i <= Len(pool.at[w].chunks)
    /\ LET r == WriteObject(store, disk, pool.at[w].chunks[pool.at[w].i].Data)
       IN  /\ store' = r.s
           /\ pool' = IF r.err
                      THEN [pool EXCEPT !.at[w].pc = "gone",
                                        !.results = Append(@,
                                            [FilePath |-> pool.at[w].file, ManifestHash |-> 0,
                                             TotalSize |-> 0, Err |-> TRUE])]
                      ELSE [pool EXCEPT !.at[w].i = @ + 1]
    /\ UNCHANGED <<disk, work, out, faults, last, assigned, taken, crashed,
                   mutex, calls, hist, catalog>>

\* The worker writes the manifest of its file and sends the file's result.
WriteManifest(w) ==
    /\ pool.state = "running"
    /\ pool.at[w].pc = "busy"
    /\ pool.at[w].i > Len(pool.at[w].chunks)
    /\ LET ch == pool.at[w].chunks
           r == WriteObject(store, disk,
                    MarshalManifest([i \in 1..Len(ch) |-> ChunkRef(ch[i].Hash, ch[i].Size)],
                                    pool.at[w].totalSize))
       IN  /\ store' = r.s
           /\ pool' = [pool EXCEPT !.at[w] = IdleWorker,
                                   !.results = Append(@,
                                       [FilePath |-> pool.at[w].file,
                                        ManifestHash |-> IF r.err THEN 0 ELSE r.hash,
                                        TotalSize |-> IF r.err THEN 0 ELSE pool.at[w].totalSize,
                                        Err |-> r.err])]
    /\ UNCHANGED <<disk, work, out, faults, last, assigned, taken, crashed,
                   mutex, calls, hist, catalog>>

\* wg.Wait can return: the jobs channel is empty and closed, or every worker
\* has returned on an error, and no worker is at a file.
FinishReady ==
    /\ pool.state = "running"
    /\ pool.jobs = <<>> \/ \A w \in Workers : pool.at[w].pc = "gone"
    /\ \A w \in Workers : pool.at[w].pc # "busy"

\* The jobs channel is empty and closed and every worker has ended: the
\* results are collected and Snap goes on to its end.
FinishSnap ==
    /\ FinishReady
    /\ \E t \in Times :
         LET pf == collectResults(pool.results,
                       [s |-> store, files |-> walkFiles(work, <<>>), fileHashes |-> EmptyMap,
                        totalSourceSize |-> 0, err |-> FALSE])
             r == snapFiles(disk, work, t, 0, "none", pf)
         IN  /\ disk' = r.disk
             /\ assigned' = IF r.wrote THEN Append(assigned, r.id) ELSE assigned
             /\ taken' = IF r.wrote THEN (r.hash :> work) @@ taken ELSE taken
             /\ last' = [NoCommand EXCEPT !.op = "snap", !.key = r.hash,
                                          !.res = IF r.err THEN "err" ELSE "ok"]
             /\ pool' = [pool EXCEPT !.state = "done", !.root = r.root,
                                     !.ret = [fileHashes |-> pf.fileHashes,
                                              totalSourceSize |-> pf.totalSourceSize,
                                              err |-> pf.err]]
    /\ UNCHANGED <<work, out, faults, crashed, store, mutex, calls, hist, catalog>>

InitPool ==
    /\ disk \in {EmptyRepo, [EmptyRepo EXCEPT !.index = [st |-> "torn", map |-> EmptyMap]]}
    /\ work \in PoolWorlds
    /\ out = NoPath
    /\ faults = 0
    /\ last = NoCommand
    /\ assigned = <<>>
    /\ taken = EmptyMap
    /\ crashed = FALSE
    /\ store = NewObjectStore
    /\ mutex = 0
    /\ calls = [w \in Workers |-> IdleCall]
    /\ pool = NoPool
    /\ hist = NoHistory(EmptyRepo)
    /\ catalog = [exists |-> FALSE, entries |-> {}]

NextPool ==
    \/ StartSnap
    \/ \E w \in Workers : TakeJob(w) \/ WriteChunk(w) \/ WriteManifest(w)
    \/ FinishSnap

SpecPool == InitPool /\ [][NextPool]_vars

\* The pool under the Go scheduler, which lets every goroutine that can take
\* a step take it.  FinishSnap can be taken exactly when FinishReady holds,
\* and its weak fairness is written with that.
SpecPoolFair ==
    /\ SpecPool
    /\ \A w \in Workers : WF_vars(TakeJob(w)) /\ WF_vars(WriteChunk(w)) /\ WF_vars(WriteManifest(w))
    /\ []<>~FinishReady \/ []<><<FinishSnap>>_vars

\* ------------------------------------------------------------------ the chunker on any file

\* The files that are chunked: every string of up to MaxFileLen bytes over
\* two byte values.
Contents == UNION {[1..n -> {21, 22}] : n \in 0..MaxFileLen}

\* A pool worker's work on the file a up to the manifest: ChunkFile, whatever
\* the chunker returns, and the FileManifest marshalled from the chunks.
ChunkOp ==
    /\ last.op = "none"
    /\ \E lengths \in RabinCuts(Len(work[NameA].data)) :
         LET ch == chunkCuts(work[NameA].data, lengths)
         IN  last' = [NoCommand EXCEPT
                         !.op = "chunk", !.chunks = ch.chunks, !.total = ch.totalSize,
                         !.manifest = MarshalManifest(
                             [i \in 1..Len(ch.chunks) |->
                                 ChunkRef(ch.chunks[i].Hash, ch.chunks[i].Size)],
                             ch.totalSize)]
    /\ UNCHANGED <<disk, work, out, faults, assigned, taken, crashed>>
    /\ UNCHANGED storeVars

InitChunk ==
    /\ disk = EmptyRepo
    /\ \E c \in Contents : work = (NameA :> FileNode(c, 420))
    /\ out = NoPath
    /\ faults = 0
    /\ last = NoCommand
    /\ assigned = <<>>
    /\ taken = EmptyMap
    /\ crashed = FALSE
    /\ store = NewObjectStore
    /\ mutex = 0
    /\ calls = [w \in Workers |-> IdleCall]
    /\ pool = NoPool
    /\ hist = NoHistory(EmptyRepo)
    /\ catalog = [exists |-> FALSE, entries |-> {}]

SpecChunk == InitChunk /\ [][ChunkOp]_vars

\* ------------------------------------------------------------------ the object store under concurrent callers

\* The objects the workers write and the digests they read.
StoreData == {BytesX, BytesY, BytesX \o BytesY}

\* A lock that every worker passes at once.
mutexIgnored(m) == TRUE

\* s.mutex.Lock() goes through when no worker holds the mutex.
mutexFree(m) == m = 0

\* WriteObject before the lock: the digest is computed on the caller's side.
WriteCall(w) ==
    /\ calls[w].pc = "idle" /\ hist.ops < MaxOps
    /\ \E data \in StoreData :
         calls' = [calls EXCEPT ![w].pc = "hashed", ![w].op = "write",
                                ![w].data = data, ![w].hash = GetHash(data)]
    /\ hist' = [hist EXCEPT !.ops = @ + 1, !.by = 0]
    /\ UNCHANGED <<disk, store, mutex>>
    /\ UNCHANGED <<work, out, faults, last, assigned, taken, crashed, catalog, pool>>

\* WriteObject takes the mutex and loads the index; view is the store as the
\* worker has it before it looks the digest up.
WriteEnter(w) ==
    /\ calls[w].pc = "hashed" /\ mutexFree(mutex)
    /\ mutex' = w
    /\ store' = loadIndex(store, disk).s
    /\ calls' = [calls EXCEPT ![w].pc = "locked", ![w].view = loadIndex(store, disk)]
    /\ hist' = [hist EXCEPT !.by = 0]
    /\ UNCHANGED disk
    /\ UNCHANGED <<work, out, faults, last, assigned, taken, crashed, catalog, pool>>

\* WriteObject's look-up and insertion on the store the worker has, its return
\* and the release of the mutex.
WriteExit(w) ==
    /\ calls[w].pc = "locked"
    /\ LET r == writeLoaded(calls[w].view.s, calls[w].view, calls[w].hash, calls[w].data)
           z == WriteObject(hist.s, hist.disk, calls[w].data)
       IN  /\ store' = r.s
           /\ calls' = [calls EXCEPT ![w].pc = "idle",
                                     ![w].ret = [op |-> "write", hash |-> r.hash,
                                                 data |-> calls[w].data,
                                                 err |-> IF r.err THEN "index unreadable"
                                                         ELSE "none"]]
           /\ hist' = [hist EXCEPT !.s = z.s, !.by = w,
                                   !.wrote = IF r.err THEN @ ELSE @ \cup {calls[w].data}]
    /\ mutex' = 0
    /\ UNCHANGED disk
    /\ UNCHANGED <<work, out, faults, last, assigned, taken, crashed, catalog, pool>>

\* Commit, under the mutex from its first statement to its return.
CommitOp(w) ==
    /\ calls[w].pc = "idle" /\ hist.ops < MaxOps /\ mutexFree(mutex)
    /\ LET r == Commit(store, disk, "none")
           z == Commit(hist.s, hist.disk, "none")
       IN  /\ store' = r.s
           /\ disk' = r.disk
           /\ calls' = [calls EXCEPT ![w].op = "commit",
                                     ![w].ret = [op |-> "commit", hash |-> r.n, data |-> <<>>,
                                                 err |-> IF r.err THEN "commit failed"
                                                         ELSE "none"]]
           /\ hist' = [hist EXCEPT !.s = z.s, !.disk = z.disk, !.ops = @ + 1, !.by = w,
                                   !.kept = IF r.err THEN @ ELSE @ \cup hist.wrote]
    /\ UNCHANGED mutex
    /\ UNCHANGED <<work, out, faults, last, assigned, taken, crashed, catalog, pool>>

\* ReadObjectAsBuffer, under the mutex from its first statement to its return.
ReadOp(w) ==
    /\ calls[w].pc = "idle" /\ hist.ops < MaxOps /\ mutexFree(mutex)
    /\ \E data \in StoreData :
         LET r == ReadObjectAsBuffer(store, disk, GetHash(data)) IN
         /\ store' = r.s
         /\ calls' = [calls EXCEPT ![w].op = "read",
                                   ![w].ret = [op |-> "read", hash |-> GetHash(data),
                                               data |-> r.data, err |-> r.err]]
         /\ hist' = [hist EXCEPT !.ops = @ + 1, !.by = w,
                                 !.s = ReadObjectAsBuffer(hist.s, hist.disk, GetHash(data)).s]
    /\ UNCHANGED <<disk, mutex>>
    /\ UNCHANGED <<work, out, faults, last, assigned, taken, crashed, catalog, pool>>

\* The command ends and the next one opens the repository with NewObjectStore:
\* what was pending and not committed is gone.
Reopen ==
    /\ \A w \in Workers : calls[w].pc = "idle"
    /\ hist.ops < MaxOps
    /\ store' = NewObjectStore
    /\ hist' = [hist EXCEPT !.s = NewObjectStore, !.wrote = {}, !.ops = @ + 1, !.by = 0]
    /\ UNCHANGED <<disk, mutex, calls>>
    /\ UNCHANGED <<work, out, faults, last, assigned, taken, crashed, catalog, pool>>

InitStore ==
    /\ disk = EnsureBtoolDirs(EmptyRepo)
    /\ work = EmptyMap
    /\ out = NoPath
    /\ faults = 0
    /\ last = NoCommand
    /\ assigned = <<>>
    /\ taken = EmptyMap
    /\ crashed = FALSE
    /\ store = NewObjectStore
    /\ mutex = 0
    /\ calls = [w \in Workers |-> IdleCall]
    /\ pool = NoPool
    /\ hist = NoHistory(EnsureBtoolDirs(EmptyRepo))
    /\ catalog = [exists |-> FALSE, entries |-> {}]

NextStore ==
    \/ \E w \in Workers : WriteCall(w)
    \/ \E w \in Workers : WriteEnter(w)
    \/ \E w \in Workers : WriteExit(w)
    \/ \E w \in Workers : CommitOp(w)
    \/ \E w \in Workers : ReadOp(w)
    \/ Reopen

SpecStore == InitStore /\ [][NextStore]_vars

\* ------------------------------------------------------------------ a read of the object store, statement by statement

\* ReadObjectAsBuffer from s.mutex.Lock() to the index lookup: the pending
\* object or an error returns at once, and the deferred Unlock runs with the
\* return; a committed object leaves the worker before os.Open, the mutex
\* still held.
ReadEnter(w) ==
    /\ calls[w].pc = "idle" /\ hist.ops < MaxOps /\ mutexFree(mutex)
    /\ \E data \in StoreData :
         LET hash == GetHash(data)
             r == ReadObjectAsBuffer(store, disk, hash)
         IN  /\ store' = r.s
             /\ IF hash \in DOMAIN store.pendingObjects
                   \/ r.err \in {"index unreadable", "not found in index"}
                THEN /\ calls' = [calls EXCEPT ![w].op = "read",
                                     ![w].ret = [op |-> "read", hash |-> hash,
                                                 data |-> r.data, err |-> r.err]]
                     /\ UNCHANGED mutex
                ELSE /\ calls' = [calls EXCEPT ![w].pc = "open", ![w].op = "read",
                                               ![w].hash = hash]
                     /\ mutex' = w
    /\ hist' = [hist EXCEPT !.ops = @ + 1, !.by = w]
    /\ UNCHANGED disk
    /\ UNCHANGED <<work, out, faults, last, assigned, taken, crashed, catalog, pool>>

\* os.Open of the packfile the entry names: a packfile that is not there
\* returns the error, and the deferred Unlock runs.
ReadOpen(w) ==
    /\ calls[w].pc = "open"
    /\ LET r == ReadObjectAsBuffer(store, disk, calls[w].hash) IN
       IF r.err = "open packfile"
       THEN /\ calls' = [calls EXCEPT ![w].pc = "idle",
                            ![w].ret = [op |-> "read", hash |-> calls[w].hash,
                                        data |-> r.data, err |-> r.err]]
            /\ mutex' = 0
       ELSE /\ calls' = [calls EXCEPT ![w].pc = "readat"]
            /\ UNCHANGED mutex
    /\ hist' = [hist EXCEPT !.by = w]
    /\ UNCHANGED <<disk, store>>
    /\ UNCHANGED <<work, out, faults, last, assigned, taken, crashed, catalog, pool>>

\* file.ReadAt(buffer, entry.Offset), the return, and the deferred Close and
\* Unlock.
ReadAt(w) ==
    /\ calls[w].pc = "readat"
    /\ LET r == ReadObjectAsBuffer(store, disk, calls[w].hash) IN
       calls' = [calls EXCEPT ![w].pc = "idle",
                    ![w].ret = [op |-> "read", hash |-> calls[w].hash,
                                data |-> r.data, err |-> r.err]]
    /\ mutex' = 0
    /\ hist' = [hist EXCEPT !.by = w]
    /\ UNCHANGED <<disk, store>>
    /\ UNCHANGED <<work, out, faults, last, assigned, taken, crashed, catalog, pool>>

NextRead ==
    \/ \E w \in Workers : WriteCall(w)
    \/ \E w \in Workers : WriteEnter(w)
    \/ \E w \in Workers : WriteExit(w)
    \/ \E w \in Workers : CommitOp(w)
    \/ \E w \in Workers : ReadEnter(w)
    \/ \E w \in Workers : ReadOpen(w)
    \/ \E w \in Workers : ReadAt(w)

SpecRead == InitStore /\ [][NextRead]_vars

\* ------------------------------------------------------------------ the object store when a Commit fails

\* A Commit whose write of the packfile or of index.json fails, having
\* written nothing or part of the file; it returns the error.
CommitFail(w) ==
    /\ calls[w].pc = "idle" /\ hist.ops < MaxOps /\ mutexFree(mutex)
    /\ faults < MaxFaults
    /\ \E stop \in CommitStops :
         LET r == Commit(store, disk, stop)
             z == Commit(hist.s, hist.disk, stop)
         IN  /\ r.stopped
             /\ store' = r.s
             /\ disk' = r.disk
             /\ calls' = [calls EXCEPT ![w].op = "commit",
                                       ![w].ret = [op |-> "commit", hash |-> r.n,
                                                   data |-> <<>>, err |-> "commit failed"]]
             /\ hist' = [hist EXCEPT !.s = z.s, !.disk = z.disk, !.ops = @ + 1, !.by = w]
    /\ faults' = faults + 1
    /\ UNCHANGED mutex
    /\ UNCHANGED <<work, out, last, assigned, taken, crashed, catalog, pool>>

NextCommit ==
    \/ \E w \in Workers : WriteCall(w)
    \/ \E w \in Workers : WriteEnter(w)
    \/ \E w \in Workers : WriteExit(w)
    \/ \E w \in Workers : CommitOp(w)
    \/ \E w \in Workers : CommitFail(w)
    \/ \E w \in Workers : ReadOp(w)

SpecCommit == InitStore /\ [][NextCommit]_vars

\* ------------------------------------------------------------------ the catalog on any snaps directory

\* The names in snaps/: the digests 0a0000, 120000, ab1000 and ab2000.
Stems == {655360, 1179648, 11210752, 11214848}

\* What a name in snaps/ can stand for: a snapshot file with ID 1 or 2, a file
\* cut short, a file whose timestamp does not parse, a JSON document with the
\* timestamp and neither id nor rootTreeHash (absent keys unmarshal to zero
\* values), a file named .txt, a directory named .json, a file that cannot be
\* read.
Variants == {"absent", "id1", "id2", "cut", "badtime", "nofields", "txt", "dir", "unreadable"}

SnapDoc(id, ts, root) ==
    MarshalSnap([ID |-> id, Timestamp |-> ts, RootTreeHash |-> root, Message |-> 0,
                 SourceSize |-> 0, SnapSize |-> 0])

Named(h, v) ==
    CASE v = "id1" -> DirEntry(h, ".json", FALSE, TRUE, SnapDoc(1, 1, GetHash(MarshalTree(<<>>)))) 
      [] v = "id2" -> DirEntry(h, ".json", FALSE, TRUE, SnapDoc(2, 1, GetHash(MarshalTree(<<>>))))
      [] v = "cut" -> DirEntry(h, ".json", FALSE, TRUE,
                               SubSeq(SnapDoc(1, 1, GetHash(MarshalTree(<<>>))), 1, 3))
      [] v = "badtime" -> DirEntry(h, ".json", FALSE, TRUE,
                                   SnapDoc(2, 0, GetHash(MarshalTree(<<>>))))
      [] v = "nofields" -> DirEntry(h, ".json", FALSE, TRUE, SnapDoc(0, 1, 0))
      [] v = "txt" -> DirEntry(h, ".txt", FALSE, TRUE, SnapDoc(1, 1, GetHash(MarshalTree(<<>>))))
      [] v = "dir" -> DirEntry(h, ".json", TRUE, FALSE, <<>>)
      [] OTHER -> DirEntry(h, ".json", FALSE, FALSE, SnapDoc(1, 1, GetHash(MarshalTree(<<>>))))

\* The identifiers given to FindSnap: one or two characters out of 0, 1, 2, a
\* and b.
CatalogIdents ==
    UNION {[1..n -> {0, 1, 2, 10, 11}] : n \in 1..PrefixLen}

InitCatalog ==
    /\ disk = EmptyRepo
    /\ work = EmptyMap
    /\ out = NoPath
    /\ faults = 0
    /\ last = NoCommand
    /\ assigned = <<>>
    /\ taken = EmptyMap
    /\ crashed = FALSE
    /\ store = NewObjectStore
    /\ mutex = 0
    /\ calls = [w \in Workers |-> IdleCall]
    /\ pool = NoPool
    /\ hist = NoHistory(EmptyRepo)
    /\ \/ catalog = [exists |-> FALSE, entries |-> {}]
       \/ \E c \in [Stems -> Variants] :
            catalog = [exists |-> TRUE,
                       entries |-> {Named(h, c[h]) : h \in {x \in Stems : c[x] # "absent"}}]

\* GetSortedSnaps on the directory, once.
ListOp ==
    /\ last.op = "none"
    /\ last' = [NoCommand EXCEPT !.op = "list",
                                 !.list = listDir(catalog.exists, catalog.entries)]
    /\ UNCHANGED <<disk, work, out, faults, assigned, taken, crashed>>
    /\ UNCHANGED storeVars

\* FindSnap on the directory, once.
FindOp ==
    /\ last.op = "none"
    /\ \E ident \in CatalogIdents :
         LET r == findIn(listDir(catalog.exists, catalog.entries), ident)
         IN  last' = [NoCommand EXCEPT !.op = "find", !.ident = ident,
                                       !.res = IF r.err = "none" THEN "ok" ELSE "err",
                                       !.key = r.snap.Hash, !.msg = r.err]
    /\ UNCHANGED <<disk, work, out, faults, assigned, taken, crashed>>
    /\ UNCHANGED storeVars

NextCatalog == ListOp \/ FindOp

SpecCatalog == InitCatalog /\ [][NextCatalog]_vars

\* ------------------------------------------------------------------ what the claims speak of

\* The digests of the snapshot files GetSortedSnaps lists, in its order.
Listing(d) == [i \in 1..Len(GetSortedSnaps(d)) |-> GetSortedSnaps(d)[i].Hash]
Catalog(d) == {Listing(d)[i] : i \in 1..Len(Listing(d))}

\* What restoring the snapshot file h of repository d into an empty output
\* path gives, with no umask and no late write.
Restored(d, h) ==
    LET rt == restoreTree(NewObjectStore, d, snapDetail(d, h).RootTreeHash, 0, FALSE, FALSE)
    IN  [tree |-> rt.dir, ok |-> ~rt.err /\ ~rt.werr]

\* An object is intact when the index resolves its digest to bytes of that digest.
Intact(d, h) ==
    LET rd == ReadObjectAsBuffer(NewObjectStore, d, h)
    IN  rd.err = "none" /\ GetHash(rd.data) = h

\* The digests reachable from a root tree, each read as the kind of object the
\* entry that names it says it is.
ManifestClosure(d, h) ==
    LET rd == ReadObjectAsBuffer(NewObjectStore, d, h)
        m == UnmarshalManifest(rd.data)
    IN  {h} \cup (IF rd.err = "none" /\ IsManifestJSON(rd.data)
                  THEN {m.Chunks[i].Hash : i \in 1..Len(m.Chunks)} ELSE {})

RECURSIVE TreeClosure(_, _)
TreeClosure(d, h) ==
    LET rd == ReadObjectAsBuffer(NewObjectStore, d, h)
        t == UnmarshalTree(rd.data)
    IN  {h} \cup (IF rd.err = "none" /\ IsTreeJSON(rd.data)
                  THEN UNION {IF t.Entries[i].Type = JsonTags.tree
                              THEN TreeClosure(d, t.Entries[i].Hash)
                              ELSE ManifestClosure(d, t.Entries[i].Hash)
                              : i \in 1..Len(t.Entries)}
                  ELSE {})

\* Every entry of index.json names an existing packfile whose bytes at the
\* entry's place have the entry's digest.
IndexIntegrity(d) ==
    /\ d.index.st # "torn"
    /\ \A h \in DOMAIN d.index.map : Intact(d, h)

\* ------------------------------------------------------------------ claims

\* C1: restoring a snapshot that was taken successfully, into an output path
\* that was absent or a directory, succeeds and leaves at the output path
\* exactly the tree the snapshot was taken of: same names, same bytes, same
\* low nine permission bits.
C1_RoundTrip ==
    (/\ last.op = "restore" /\ ~last.inPlace
     /\ last.before.kind \in {"absent", "dir"}
     /\ last.key \in DOMAIN taken)
    => (last.res = "ok" /\ out = DirPath(taken[last.key]))

\* C2: while no command has met an I/O failure, so that every snap and prune
\* so far has returned successfully, every digest reachable from the root tree
\* of every snapshot of the catalog resolves through the index to bytes of
\* that digest.
C2_Reachability ==
    faults = 0
    => \A h \in Catalog(disk) :
         \A o \in TreeClosure(disk, snapDetail(disk, h).RootTreeHash) : Intact(disk, o)

\* C3: a prune that returns successfully leaves every snapshot whose ID is at
\* least the ID of the snapshot it was given in the catalog, restoring to what
\* it restored to before.
C3_PruneLiveness ==
    [][(last'.op = "prune" /\ last'.res = "ok")
       => \A h \in Catalog(disk) :
            snapDetail(disk, h).ID >= snapDetail(disk, last'.key).ID
            => (h \in Catalog(disk') /\ Restored(disk', h) = Restored(disk, h))]_vars

\* C4: after a prune that returns successfully no snapshot with an ID below
\* the given snapshot's is listed, and the listing is the old listing from the
\* given snapshot onward.
C4_PruneRemoval ==
    [][(last'.op = "prune" /\ last'.res = "ok")
       => LET old == Listing(disk)
              k == CHOOSE i \in 1..Len(old) : old[i] = last'.key
          IN  /\ \A h \in Catalog(disk') :
                    snapDetail(disk', h).ID >= snapDetail(disk, last'.key).ID
              /\ Listing(disk') = SubSeq(old, k, Len(old))]_vars

\* C5: when a snap ends inside its Commit, at any of the places where the
\* process can stop there, a store opened afterwards loads the index, and sees
\* either the index as it was before the commit or the index of the completed
\* commit with every packfile it names in place.
C5_CommitCrashConsistency ==
    [][(last'.op = "snap" /\ last'.stop \in CommitStops)
       => LET before == loadIndex(NewObjectStore, disk)
              after == loadIndex(NewObjectStore, disk')
              done == Snap(disk, work, 1, 0, "none").disk
          IN  before.err
              \/ (/\ ~after.err
                  /\ \/ after.s.packIndex = before.s.packIndex
                     \/ /\ after.s.packIndex = done.index.map
                        /\ \A h \in DOMAIN after.s.packIndex : Intact(disk', h))]_vars

\* C6: when a prune stops, by a crash or a failed rename, after any step of
\* the swap, every snapshot it was to keep still restores to what it restored
\* to before the prune.
C6_PruneRecoverable ==
    [][(last'.op = "prune"
        /\ last'.stop \in {"bak_index", "act_packs", "act_index", "rm_bak"})
       => \A h \in Catalog(disk) :
            snapDetail(disk, h).ID >= snapDetail(disk, last'.key).ID
            => Restored(disk', h) = Restored(disk, h)]_vars

\* C7: after a snap or a prune that returned successfully and rewrote the
\* index, every index entry names a packfile of the packs directory whose
\* bytes at the entry's place have the entry's digest.
C7_IndexIntegrity ==
    [][(last'.op \in {"snap", "prune"} /\ last'.res = "ok" /\ disk'.index # disk.index)
       => IndexIntegrity(disk')]_vars

\* C8: a restore into the repository's own directory of a snapshot that was
\* taken successfully succeeds, leaves the directory holding exactly the tree
\* the snapshot was taken of, and leaves the repository with the snapshot in
\* its catalog and restorable.
C8_InPlaceRestore ==
    (last.op = "restore" /\ last.inPlace /\ last.key \in DOMAIN taken)
    => (/\ last.res = "ok"
        /\ work = taken[last.key]
        /\ last.key \in Catalog(disk)
        /\ Restored(disk, last.key).ok)

\* C9: a restore into an output path that is a regular file fails and leaves
\* the file as it was.
C9_RestoreIntoFile ==
    (last.op = "restore" /\ ~last.inPlace /\ last.before.kind = "file")
    => (last.res = "err" /\ out = last.before)

\* C10: while no command has crashed, the IDs of the snapshot files written
\* are strictly increasing.
C10_IDMonotonic ==
    ~crashed
    => \A i, j \in 1..Len(assigned) : i < j => assigned[i] < assigned[j]

\* C11: a prune leaves the counter file as it was, and, while no command has
\* crashed, the snapshot file that the next snap writes after a prune that
\* returned successfully has an ID greater than the ID of every snapshot the
\* prune removed.
C11_PruneKeepsCounter ==
    [][/\ last'.op = "prune" => disk'.counter = disk.counter
       /\ (/\ ~crashed'
           /\ last.op = "prune" /\ last.res = "ok"
           /\ last'.op = "snap" /\ Len(assigned') > Len(assigned))
          => \A i \in last.ids : assigned'[Len(assigned')] > i]_vars

\* C12: a WriteObject call that returns without error returns the digest of
\* its bytes and writes nothing to disk; when the digest is in the loaded index
\* or pending it leaves the pending objects as they are, otherwise it adds the
\* one pending entry digest -> bytes.  Through any writes and commits every
\* byte sequence is stored once: no digest is pending and in the index at the
\* same time, an index entry once made and a packfile once written stay as
\* they are, and every index entry names the bytes of its digest.
C12_WriteDedup ==
    [][/\ \A w \in Workers :
            (calls[w].pc = "locked" /\ calls'[w].pc = "idle" /\ calls'[w].ret.err = "none") =>
                /\ calls'[w].ret.hash = GetHash(calls[w].data)
                /\ disk' = disk
                /\ store'.packIndex = store.packIndex
                /\ IF calls[w].hash \in DOMAIN store.packIndex \cup DOMAIN store.pendingObjects
                   THEN store'.pendingObjects = store.pendingObjects
                   ELSE /\ store'.pendingObjects =
                              (calls[w].hash :> calls[w].data) @@ store.pendingObjects
                        /\ Cardinality(DOMAIN store'.pendingObjects) =
                              Cardinality(DOMAIN store.pendingObjects) + 1
       /\ \A h \in DOMAIN disk'.index.map :
            /\ disk'.index.map[h].PackHash \in DOMAIN disk'.packs.files
            /\ GetHash(SubSeq(disk'.packs.files[disk'.index.map[h].PackHash],
                              disk'.index.map[h].Offset + 1,
                              disk'.index.map[h].Offset + disk'.index.map[h].Length)) = h
       /\ DOMAIN store'.pendingObjects \cap DOMAIN disk'.index.map = {}
       /\ \A h \in DOMAIN disk.index.map :
            h \in DOMAIN disk'.index.map /\ disk'.index.map[h] = disk.index.map[h]
       /\ \A p \in DOMAIN disk.packs.files :
            p \in DOMAIN disk'.packs.files /\ disk'.packs.files[p] = disk.packs.files[p]
      ]_vars

\* A write has just returned the digest of bytes that an earlier instance of
\* the store committed: it found the digest in the index it loaded.
C12_Witness ==
    \E w \in Workers :
        /\ hist.by = w /\ calls[w].ret.op = "write" /\ calls[w].ret.err = "none"
        /\ calls[w].ret.hash \in DOMAIN store.packIndex
        /\ calls[w].ret.hash \notin DOMAIN store.pendingObjects
        /\ Cardinality(DOMAIN disk.packs.files) = 1

\* C13: whenever no worker holds the mutex, the store and the repository are
\* what the same calls leave when they are made one after another, in the
\* order the workers left the mutex: no write is lost and none is kept twice.
\* The pending objects are the distinct byte sequences written on this
\* instance and not committed, one each, and the index on disk has one entry
\* for each distinct byte sequence committed.
C13_SerialWrites ==
    mutex = 0 =>
        /\ store = hist.s
        /\ disk = hist.disk
        /\ DOMAIN store.pendingObjects = {GetHash(b) : b \in hist.wrote \ hist.kept}
        /\ Cardinality(DOMAIN store.pendingObjects) = Cardinality(hist.wrote \ hist.kept)
        /\ \A b \in hist.wrote \ hist.kept : store.pendingObjects[GetHash(b)] = b
        /\ hist.kept # {} =>
              /\ disk.index.st = "ok"
              /\ DOMAIN disk.index.map = {GetHash(b) : b \in hist.kept}
              /\ Cardinality(DOMAIN disk.index.map) = Cardinality(hist.kept)

\* Two workers wrote two distinct objects, both were pending together, and one
\* Commit put both into one packfile and the index.
C13_Witness ==
    /\ mutex = 0 /\ hist.ops = 3
    /\ \A w \in Workers : calls[w].hash # 0 /\ calls[w].pc = "idle"
    /\ calls[1].data # calls[2].data
    /\ Cardinality(hist.kept) = 2
    /\ Cardinality(DOMAIN disk.index.map) = 2
    /\ Cardinality(DOMAIN disk.packs.files) = 1

\* C14: a ReadObjectAsBuffer call on the digest of bytes that were written on
\* this instance, or committed by this or an earlier instance on the same
\* repository, returns exactly those bytes; on a digest that is neither
\* pending nor in the index it returns the error "not found in index".
C14_ReadYourWrites ==
    [][\A w \in Workers :
         (hist'.by = w /\ calls'[w].ret.op = "read") =>
            /\ \A b \in hist.wrote \cup hist.kept :
                  calls'[w].ret.hash = GetHash(b) =>
                     calls'[w].ret.err = "none" /\ calls'[w].ret.data = b
            /\ (/\ calls'[w].ret.hash \notin DOMAIN store.pendingObjects
                /\ calls'[w].ret.hash \notin DOMAIN disk.index.map)
               => calls'[w].ret.err = "not found in index"]_vars

\* A fresh instance, on which nothing was written, has just read from the
\* packfile the bytes an earlier instance committed.
C14_Witness ==
    \E w \in Workers :
        /\ hist.by = w /\ calls[w].ret.op = "read" /\ calls[w].ret.err = "none"
        /\ hist.wrote = {}
        /\ calls[w].ret.data \in hist.kept
        /\ store.pendingObjects = EmptyMap

\* C15: FindSnap resolves an identifier that parses as a positive integer by
\* exact ID; any other identifier it resolves as a prefix of the hex digests:
\* it returns the snapshot when exactly one digest has the prefix, a not-found
\* error when none has, the error "ambiguous" when two or more have.
C15_IdentifierResolution ==
    last.op = "find" =>
        LET snaps   == listDir(catalog.exists, catalog.entries)
            num     == ParseInt(last.ident)
            byID    == {i \in 1..Len(snaps) : snaps[i].ID = num.n}
            matches == {i \in 1..Len(snaps) : IsPrefix(last.ident, HexOf(snaps[i].Hash))}
        IN  IF num.ok /\ num.n > 0
            THEN /\ byID # {} => /\ last.msg = "none"
                                 /\ \E i \in byID : snaps[i].Hash = last.key
                 /\ byID = {} => last.msg \in {"no snap found", "no snaps found to search from"}
            ELSE /\ Cardinality(matches) = 1 =>
                      /\ last.msg = "none"
                      /\ \A i \in matches : snaps[i].Hash = last.key
                 /\ matches = {} =>
                      last.msg \in {"no snap found", "no snaps found to search from"}
                 /\ Cardinality(matches) > 1 => last.msg = "ambiguous"

\* C16: when the identifier given to FindSnap is a prefix of the hex digest of
\* one snapshot of the catalog and of no other, FindSnap returns that snapshot.
C16_UniquePrefix ==
    last.op = "find" =>
        LET snaps == listDir(catalog.exists, catalog.entries) IN
        \A i \in 1..Len(snaps) :
            (/\ IsPrefix(last.ident, HexOf(snaps[i].Hash))
             /\ \A j \in 1..Len(snaps) :
                    j # i => ~IsPrefix(last.ident, HexOf(snaps[j].Hash)))
            => last.msg = "none" /\ last.key = snaps[i].Hash

\* C17: GetSortedSnaps returns exactly the valid snapshot files of snaps/, by
\* ID ascending, each with the digest of its file name and the ID of its
\* document: a regular, readable file named .json whose document parses, has
\* its id and rootTreeHash and a timestamp that parses.  Everything else is
\* skipped, and a missing directory is an empty list.
C17_CatalogTolerance ==
    last.op = "list" =>
        LET valid == {e \in catalog.entries :
                         /\ ~e.IsDir /\ e.Ext = ".json" /\ e.Readable
                         /\ UnmarshalSnap(e.Content).ok
                         /\ UnmarshalSnap(e.Content).Timestamp > 0
                         /\ UnmarshalSnap(e.Content).ID > 0
                         /\ UnmarshalSnap(e.Content).RootTreeHash # 0}
        IN  /\ ~catalog.exists => last.list = <<>>
            /\ Len(last.list) = Cardinality(valid)
            /\ \A e \in valid : \E i \in 1..Len(last.list) :
                   /\ last.list[i].Hash = e.Stem
                   /\ last.list[i].ID = UnmarshalSnap(e.Content).ID
            /\ \A i, j \in 1..Len(last.list) : i < j => last.list[i].ID <= last.list[j].ID

\* ------------------------------------------------------------------ restore of what is not there

Damaged(d, h) ==
    /\ d.snaps.exists /\ h \in DOMAIN d.snaps.files
    /\ d.index.st = "ok"
    /\ \E o \in TreeClosure(d, snapDetail(d, h).RootTreeHash) : o \notin DOMAIN d.index.map

\* C19: a restore of a snapshot one of whose objects has no index entry
\* returns an error, and the error it returns is the "not found in index" of
\* the object store, whichever worker's error comes first.
C19_MissingObject ==
    [][(last'.op = "restore" /\ last'.known /\ Damaged(disk, last'.key))
       => /\ last'.res = "err"
          /\ last'.cause = "not found in index"]_vars

\* The part of C19 that holds: such a restore never reports success.
C19_NeverSuccess ==
    [][(last'.op = "restore" /\ last'.known /\ Damaged(disk, last'.key))
       => last'.res = "err"]_vars

\* C19 holds of every restore in which no file is written into a directory
\* that restoreTree has already made read-only.
C19_NoLateWrite ==
    [][(last'.op = "restore" /\ last'.known /\ Damaged(disk, last'.key)
        /\ \A n \in DOMAIN work : work[n].mode # 365)
       => /\ last'.res = "err"
          /\ last'.cause = "not found in index"]_vars

\* ------------------------------------------------------------------ deduplication in a snap

\* The entries that the stored tree treeHash of repository d has for a path.
RECURSIVE EntriesAt(_, _, _)
EntriesAt(d, treeHash, path) ==
    LET t == UnmarshalTree(ReadObjectAsBuffer(NewObjectStore, d, treeHash).data)
        named == {e \in {t.Entries[i] : i \in 1..Len(t.Entries)} : e.Name = path[1]}
    IN  IF Len(path) = 1 THEN named
        ELSE UNION {EntriesAt(d, e.Hash, Tail(path)) : e \in named}

\* The chunk digests the stored manifest h names.
ChunksOf(d, h) ==
    LET m == UnmarshalManifest(ReadObjectAsBuffer(NewObjectStore, d, h).data)
    IN  {m.Chunks[i].Hash : i \in 1..Len(m.Chunks)}

\* The pairs of different files of the directory that hold the same bytes.
Twins(dir) ==
    {pq \in findAllFiles(dir, <<>>) \X findAllFiles(dir, <<>>) :
        pq[1] # pq[2] /\ NodeAt(dir, pq[1]).data = NodeAt(dir, pq[2]).data}

RECURSIVE SumLength(_, _)
SumLength(index, hs) ==
    IF hs = {} THEN 0
    ELSE LET h == CHOOSE x \in hs : TRUE
         IN  index[h].Length + SumLength(index, hs \ {h})

\* In the repository d holding the snapshot file key of the directory dir:
\* two files of the same bytes have one tree entry each, with the same
\* manifest digest, and every chunk of theirs is in the index and intact.
TwinsShare(d, key, dir) ==
    \A pq \in Twins(dir) :
        LET root == snapDetail(d, key).RootTreeHash
            ep == EntriesAt(d, root, pq[1])
            eq == EntriesAt(d, root, pq[2])
        IN  /\ Cardinality(ep) = 1 /\ Cardinality(eq) = 1
            /\ \A e \in ep, f \in eq :
                 /\ e.Type = JsonTags.blob /\ f.Type = JsonTags.blob
                 /\ e.Hash = f.Hash
                 /\ \A c \in ChunksOf(d, e.Hash) :
                      c \in DOMAIN d.index.map /\ Intact(d, c)

\* C20: after a snap that succeeds, files of identical bytes share their
\* manifest digest and their chunks are indexed; the snap leaves the index
\* entries and packfiles that were there as they were, and writes at most one
\* packfile, which holds the objects that had no index entry and nothing else,
\* so that no object is stored again.
C20_SnapDedup ==
    [][(last'.op = "snap" /\ last'.res = "ok")
       => LET old == disk.index.map
              new == disk'.index.map
              added == DOMAIN new \ DOMAIN old
              written == {new[h].PackHash : h \in added}
          IN  /\ TwinsShare(disk', last'.key, work)
              /\ \A h \in DOMAIN old : h \in DOMAIN new /\ new[h] = old[h]
              /\ Cardinality(DOMAIN disk'.packs.files \ DOMAIN disk.packs.files) <= 1
              /\ Cardinality(written) <= 1
              /\ DOMAIN disk'.packs.files = DOMAIN disk.packs.files \cup written
              /\ \A p \in DOMAIN disk.packs.files \ written :
                   disk'.packs.files[p] = disk.packs.files[p]
              /\ \A p \in written :
                   Len(disk'.packs.files[p]) = SumLength(new, added)]_vars

\* A snap of a directory holding three files of the same bytes, two of them
\* in one directory, has succeeded: one packfile, and one index entry for the
\* chunk the three share.
C20_Witness ==
    /\ last.op = "snap" /\ last.res = "ok"
    /\ \E pq \in Twins(work) : Len(pq[1]) = Len(pq[2])
    /\ \E pq \in Twins(work) : Len(pq[1]) # Len(pq[2])
    /\ TwinsShare(disk, last.key, work)
    /\ GetHash(BytesY) \in DOMAIN disk.index.map
    /\ Cardinality(DOMAIN disk.packs.files) = 1

\* ------------------------------------------------------------------ determinism of a snap

\* C21: whatever the workers' schedule and the order the results arrive in, a
\* snap that succeeds has the root tree digest that the one-file-after-another
\* snap of the same directory into an empty repository has; and two snapshots
\* of the same directory have the same root tree digest.
C21_SnapDeterminism ==
    /\ (pool.state = "done" /\ last.res = "ok")
       => pool.root = Snap(EmptyRepo, work, 1, 0, "none").root
    /\ \A h1 \in DOMAIN taken, h2 \in DOMAIN taken :
          taken[h1] = taken[h2]
          => snapDetail(disk, h1).RootTreeHash = snapDetail(disk, h2).RootTreeHash

\* Two snaps of a directory with three files have succeeded, and in the
\* second the results arrived in another order than the jobs were sent in.
C21_Witness ==
    /\ pool.state = "done" /\ last.res = "ok"
    /\ Len(assigned) = 2 /\ Cardinality(DOMAIN taken) = 2
    /\ Len(pool.results) = 3
    /\ pool.results[1].FilePath # walkFiles(work, <<>>)[1]
    /\ pool.root # 0

\* ------------------------------------------------------------------ the chunk partition

\* C22: the chunks ChunkFile returns for a file, one after another, are the
\* file; their sizes add up to the total it returns, which is the file's
\* length; each carries the digest and the length of its bytes; an empty file
\* has no chunk and total 0, a file shorter than the minimum chunk size is one
\* chunk (the one the snap model's ChunkFile gives), and the manifest the
\* worker marshals has as totalSize the sum of its chunk sizes.
C22_ChunkPartition ==
    last.op = "chunk" =>
        LET content == work[NameA].data
            m == UnmarshalManifest(last.manifest)
        IN  /\ Flatten([i \in 1..Len(last.chunks) |-> last.chunks[i].Data]) = content
            /\ SumSeq([i \in 1..Len(last.chunks) |-> last.chunks[i].Size]) = last.total
            /\ last.total = Len(content)
            /\ \A i \in 1..Len(last.chunks) :
                 /\ last.chunks[i].Hash = GetHash(last.chunks[i].Data)
                 /\ last.chunks[i].Size = Len(last.chunks[i].Data)
            /\ Len(content) = 0 => last.chunks = <<>> /\ last.total = 0
            /\ (Len(content) > 0 /\ Len(content) < MinChunk)
               => /\ Len(last.chunks) = 1 /\ last.chunks[1].Data = content
                  /\ last.chunks = ChunkFile(content).chunks
            /\ m.ok /\ Len(m.Chunks) = Len(last.chunks)
            /\ m.TotalSize = SumSeq([i \in 1..Len(m.Chunks) |-> m.Chunks[i].Size])

\* A file of the longest length was cut into two chunks of different sizes.
C22_Witness ==
    /\ last.op = "chunk"
    /\ Len(work[NameA].data) = MaxFileLen
    /\ Len(last.chunks) = 2
    /\ last.chunks[1].Size # last.chunks[2].Size
    /\ last.chunks[1].Data \o last.chunks[2].Data = work[NameA].data

\* ------------------------------------------------------------------ prune with nothing to prune

\* C23: a prune whose snapshot to keep from is the first of the listing
\* returns success and leaves the whole repository as it was: index,
\* packfiles, snapshot files, counter, and what earlier prunes left behind.
C23_PruneNoop ==
    [][(last'.op = "prune" /\ Listing(disk) # <<>> /\ Listing(disk)[1] = last'.key)
       => /\ last'.res = "ok"
          /\ last'.ids = {}
          /\ disk' = disk]_vars

\* A prune from the first of two listed snapshots has returned success.
C23_Witness ==
    /\ last.op = "prune" /\ last.res = "ok" /\ last.ids = {}
    /\ Len(Listing(disk)) >= 2
    /\ Listing(disk)[1] = last.key
    /\ disk.index.st = "ok" /\ disk.packs.exists

\* ------------------------------------------------------------------ prune of what is not there

RECURSIVE specialFiles(_, _)
specialFiles(dir, path) ==
    UNION {IF dir[n].type = "dir" THEN specialFiles(dir[n].entries, Append(path, n))
           ELSE IF dir[n].type = "file" THEN {}
           ELSE {Append(path, n)} : n \in DOMAIN dir}

\* C25: a snap of a directory that holds a non-regular file succeeds, and no
\* tree of the snapshot has an entry for that file.
C25_SkipsSpecial ==
    [][(last'.op = "snap" /\ specialFiles(work, <<>>) # {})
       => /\ last'.res = "ok"
          /\ \A p \in specialFiles(work, <<>>) :
               EntriesAt(disk', snapDetail(disk', last'.key).RootTreeHash, p) = {}]_vars

\* ------------------------------------------------------------------ commit

\* Worker w's Commit call returns in this step.
CommitReturns(w) ==
    hist'.by = w /\ hist'.ops = hist.ops + 1 /\ calls'[w].ret.op = "commit"

\* C26: a Commit with nothing pending returns 0 and leaves the repository and
\* the store as they are; a Commit with objects pending returns the length of
\* the packfile it wrote, which is the sum of the lengths of the pending
\* objects, and leaves nothing pending.
C26_CommitNoop ==
    [][\A w \in Workers : CommitReturns(w) =>
         IF DOMAIN store.pendingObjects = {}
         THEN /\ calls'[w].ret.hash = 0 /\ calls'[w].ret.err = "none"
              /\ disk' = disk
              /\ store' = store
         ELSE /\ calls'[w].ret.err = "none"
              /\ calls'[w].ret.hash =
                    SumSeq([i \in 1..Cardinality(DOMAIN store.pendingObjects) |->
                              Len(store.pendingObjects[SortedSeq(DOMAIN store.pendingObjects)[i]])])
              /\ \E p \in DOMAIN disk'.packs.files :
                    /\ Len(disk'.packs.files[p]) = calls'[w].ret.hash
                    /\ \A h \in DOMAIN store.pendingObjects : store'.packIndex[h].PackHash = p
                    /\ \A q \in DOMAIN disk.packs.files \ {p} :
                          disk'.packs.files[q] = disk.packs.files[q]
                    /\ DOMAIN disk'.packs.files = DOMAIN disk.packs.files \cup {p}
              /\ store'.pendingObjects = EmptyMap]_vars

\* One worker's Commit put two pending objects into a packfile and returned
\* its length, and the other worker's Commit, made next, returned 0.
C26_Witness ==
    /\ hist.by = 2 /\ calls[2].ret.op = "commit" /\ calls[2].ret.hash = 0
    /\ calls[1].ret.op = "commit" /\ calls[1].ret.hash > 0
    /\ Cardinality(DOMAIN disk.index.map) = 2
    /\ Cardinality(DOMAIN disk.packs.files) = 1

\* C27: the packfile a Commit writes is a function of the set of pending
\* objects alone.  The objects lie in it one after another from offset 0 in
\* ascending order of their digests: each object's offset is the sum of the
\* lengths of the pending objects of smaller digest, its length is its own,
\* the packfile holds its bytes there and nothing else, and the packfile is
\* named by the digest of its bytes.  The index on disk has the same entries.
C27_CommitDeterminism ==
    [][\A w \in Workers :
         (CommitReturns(w) /\ DOMAIN store.pendingObjects # {}) =>
            \E p \in DOMAIN disk'.packs.files :
               /\ p = GetHash(disk'.packs.files[p])
               /\ Len(disk'.packs.files[p]) =
                     SumLength(store'.packIndex, DOMAIN store.pendingObjects)
               /\ \A h \in DOMAIN store.pendingObjects :
                     /\ store'.packIndex[h] =
                           PackIndexEntry(p,
                               SumLength(store'.packIndex,
                                         {g \in DOMAIN store.pendingObjects : g < h}),
                               Len(store.pendingObjects[h]))
                     /\ disk'.index.map[h] = store'.packIndex[h]
                     /\ SubSeq(disk'.packs.files[p], store'.packIndex[h].Offset + 1,
                               store'.packIndex[h].Offset + store'.packIndex[h].Length)
                           = store.pendingObjects[h]]_vars

\* A Commit has just packed the objects of two workers, and the object of
\* the greater digest, which worker 1 wrote, lies behind the other one.
C27_Witness ==
    /\ hist.by \in Workers /\ calls[hist.by].ret.op = "commit" /\ calls[hist.by].ret.err = "none"
    /\ calls[1].hash > calls[2].hash /\ calls[2].hash # 0
    /\ {calls[1].hash, calls[2].hash} \subseteq DOMAIN store.packIndex
    /\ store.packIndex[calls[1].hash].PackHash = store.packIndex[calls[2].hash].PackHash
    /\ store.packIndex[calls[2].hash].Offset = 0
    /\ store.packIndex[calls[1].hash].Offset = Len(calls[2].data)
    /\ Cardinality(DOMAIN disk.packs.files) = 1

\* C28: through writes, reads and commits, on one instance of the store or on
\* several opened one after another, every entry of the index file stays in
\* the index file with the pack digest, the offset and the length it has.
C28_IndexAdditive ==
    [][/\ disk.index.st = "ok" => disk'.index.st = "ok"
       /\ \A h \in DOMAIN disk.index.map :
            /\ h \in DOMAIN disk'.index.map
            /\ disk'.index.map[h] = disk.index.map[h]
       /\ \A h \in DOMAIN store'.packIndex \cap DOMAIN disk.index.map :
            store'.packIndex[h] = disk.index.map[h]]_vars

\* A second instance of the store has just committed an object into a second
\* packfile, and the index still has the entry the first instance made.
C28_Witness ==
    /\ hist.by \in Workers /\ calls[hist.by].ret.op = "commit" /\ calls[hist.by].ret.hash > 0
    /\ Cardinality(DOMAIN disk.packs.files) = 2
    /\ Cardinality(DOMAIN disk.index.map) = 2
    /\ Cardinality(hist.wrote) = 1
    /\ Cardinality(hist.kept) = 2
    /\ \E h \in DOMAIN disk.index.map : GetHash(calls[hist.by].data) # h

\* ------------------------------------------------------------------ the sweep

\* The root trees of the snapshots of d that a prune from the snapshot file
\* key keeps, in the order of the listing.
KeptRoots(d, key) ==
    LET first == CHOOSE i \in 1..Len(Listing(d)) :
                     Listing(d)[i] = key /\ \A j \in 1..(i - 1) : Listing(d)[j] # key
    IN  [i \in 1..(Len(Listing(d)) - first + 1) |->
            GetSortedSnaps(d)[first + i - 1].RootTreeHash]

\* The sets of live digests the mark phase can come to when it starts from
\* these roots, one for each order of its tasks.
LiveSets(d, roots) ==
    {markPhase(NewObjectStore, d, [i \in 1..Len(roots) |-> roots[o[i]]], 1, {}).live :
        o \in Orders(Len(roots))}

\* C29: a prune that removes a snapshot leaves an index whose keys are the
\* live digests the old index had, the live digests being the set its mark
\* phase came to; every entry is the old index's entry, and the packs
\* directory holds the packfiles these entries name, as they were, and no
\* other.
C29_SweepExact ==
    [][(last'.op = "prune" /\ last'.ids # {})
       => /\ disk'.index.st = "ok" /\ disk'.packs.exists
          /\ \E live \in LiveSets(disk, KeptRoots(disk, last'.key)) :
               DOMAIN disk'.index.map = live \cap DOMAIN disk.index.map
          /\ \A h \in DOMAIN disk'.index.map : disk'.index.map[h] = disk.index.map[h]
          /\ DOMAIN disk'.packs.files =
                {disk'.index.map[h].PackHash : h \in DOMAIN disk'.index.map}
          /\ \A p \in DOMAIN disk'.packs.files :
                disk'.packs.files[p] = disk.packs.files[p]]_vars

\* A prune has removed the snapshot of a directory and kept two snapshots of
\* another directory; one packfile is left.
C29_Witness ==
    /\ last.op = "prune" /\ last.res = "ok" /\ last.ids # {}
    /\ Len(Listing(disk)) = 2
    /\ Cardinality(DOMAIN disk.packs.files) = 1
    /\ DOMAIN disk.index.map # {}
    /\ \E h \in DOMAIN taken \ DOMAIN disk.snaps.files :
          \A k \in DOMAIN disk.snaps.files : k \in DOMAIN taken /\ taken[k] # taken[h]

\* ------------------------------------------------------------------ prune on a damaged index: the warning

\* The digests reachable from the snapshots a prune from key keeps that the
\* index of d does not have.
MissingLive(d, key) ==
    {o \in UNION {TreeClosure(d, KeptRoots(d, key)[i]) : i \in 1..Len(KeptRoots(d, key))} :
        o \notin DOMAIN d.index.map}

\* C30: a prune that has a snapshot to remove, and finds a live digest that
\* the index does not have, completes all the same: it returns success, the
\* index is the one the sweep built and the pruned snapshot files are gone.
C30_MissingLiveWarned ==
    [][(/\ last'.op = "prune" /\ last'.msg = "none"
        /\ Listing(disk)[1] # last'.key
        /\ disk.index.st = "ok"
        /\ MissingLive(disk, last'.key) # {})
       => /\ last'.res = "ok"
          /\ last'.ids # {}
          /\ Listing(disk')[1] = last'.key
          /\ \E live \in LiveSets(disk, KeptRoots(disk, last'.key)) :
               DOMAIN disk'.index.map = live \cap DOMAIN disk.index.map]_vars

\* The case of C30 in which the code does what the claim says: the digest the
\* index does not have is a chunk's, and the prune has removed a snapshot.
C30_ChunkWarned ==
    /\ last.op = "prune" /\ last.res = "ok" /\ last.ids # {}
    /\ faults = 1
    /\ MissingLive(disk, last.key) # {}

\* ------------------------------------------------------------------ the mark phase

\* C31: when a prune has marked and swept, the live set its mark phase came
\* to, whatever the order of the marking tasks, holds the root tree of every
\* kept snapshot and every digest reachable from it: the entries of every
\* tree and the chunks of every file manifest below the root.
C31_MarkComplete ==
    [][(last'.op = "prune" /\ last'.res = "ok" /\ last'.ids # {})
       => \A live \in LiveSets(disk, KeptRoots(disk, last'.key)) :
            \A i \in 1..Len(KeptRoots(disk, last'.key)) :
               /\ KeptRoots(disk, last'.key)[i] \in live
               /\ TreeClosure(disk, KeptRoots(disk, last'.key)[i]) \subseteq live]_vars

\* ------------------------------------------------------------------ orphaned packfiles

\* C32 as stated: after a prune that returns successfully, no packfile that
\* was orphaned when it started is in the packs directory.
C32_OrphanReclaimed ==
    [][(last'.op = "prune" /\ last'.res = "ok")
       => \A p \in Orphans(disk) :
            disk'.packs.exists => p \notin DOMAIN disk'.packs.files]_vars

\* C32: after a prune that removes at least one snapshot and returns
\* successfully, no packfile that was orphaned when it started is in the
\* packs directory.
C32_OrphanReclaimedAmended ==
    [][(last'.op = "prune" /\ last'.res = "ok" /\ last'.ids # {})
       => /\ disk'.packs.exists
          /\ \A p \in Orphans(disk) : p \notin DOMAIN disk'.packs.files]_vars

\* A prune that started with an orphaned packfile, left by a snap whose
\* Commit stopped, has removed a snapshot and returned success, and the
\* packfile is gone.
C32_Witness ==
    /\ last.op = "prune" /\ last.res = "ok" /\ last.ids # {} /\ last.stop = "none"
    /\ last.orphans # {}
    /\ faults = 1
    /\ disk.index.st = "ok"
    /\ \A p \in last.orphans : p \notin DOMAIN disk.packs.files

\* ------------------------------------------------------------------ the worker pool of a restore

\* The file jobs of a restore, each with the number of errors its worker sends:
\* none, one (the manifest does not read or parse, a chunk does not read, or
\* the file does not write), or two (a chunk does not read and the file, of
\* the bytes read so far, does not write either).
JobLists == UNION {[1..n -> 0..2] : n \in 0..MaxJobs}

\* Restore before its worker pool is set up.
NoRun ==
    [state |-> "off", todo |-> <<>>, jobs |-> <<>>, closed |-> FALSE, errs |-> <<>>,
     at |-> [w \in Workers |-> [pc |-> "recv", left |-> 0]], res |-> "none"]

\* Restore makes the two channels, starts the workers and enters restoreTree
\* on a snapshot whose file entries are todo.
StartRestore ==
    /\ pool.state = "off"
    /\ \E todo \in JobLists : pool' = [NoRun EXCEPT !.state = "walking", !.todo = todo]
    /\ UNCHANGED <<disk, work, out, faults, last, assigned, taken, crashed,
                   store, mutex, calls, hist, catalog>>

\* restoreTree sends the next file job; the send waits while the jobs channel
\* is full.
SendJob ==
    /\ pool.state = "walking"
    /\ pool.todo # <<>>
    /\ Len(pool.jobs) < JobsCap
    /\ pool' = [pool EXCEPT !.jobs = Append(@, Head(pool.todo)), !.todo = Tail(@)]
    /\ UNCHANGED <<disk, work, out, faults, last, assigned, taken, crashed,
                   store, mutex, calls, hist, catalog>>

\* restoreTree returns an error (a tree that does not read or parse, a
\* directory that cannot be made): Restore closes the jobs channel and
\* returns the error at once.
WalkFails ==
    /\ pool.state = "walking"
    /\ pool' = [pool EXCEPT !.closed = TRUE, !.state = "returned", !.res = "err"]
    /\ UNCHANGED <<disk, work, out, faults, last, assigned, taken, crashed,
                   store, mutex, calls, hist, catalog>>

\* restoreTree returns nil: Restore closes the jobs channel and waits for the
\* workers.
WalkEnds ==
    /\ pool.state = "walking"
    /\ pool.todo = <<>>
    /\ pool' = [pool EXCEPT !.closed = TRUE, !.state = "waiting"]
    /\ UNCHANGED <<disk, work, out, faults, last, assigned, taken, crashed,
                   store, mutex, calls, hist, catalog>>

\* A worker receives a job and works on it up to its first error, if it has
\* one.
RecvJob(w) ==
    /\ pool.state # "off"
    /\ pool.at[w].pc = "recv"
    /\ pool.jobs # <<>>
    /\ pool' = [pool EXCEPT !.jobs = Tail(@),
                            !.at[w] = IF Head(pool.jobs) = 0 THEN @
                                      ELSE [pc |-> "send", left |-> Head(pool.jobs)]]
    /\ UNCHANGED <<disk, work, out, faults, last, assigned, taken, crashed,
                   store, mutex, calls, hist, catalog>>

\* A worker sends an error of its job; the send waits while the errs channel
\* is full.
SendErr(w) ==
    /\ pool.at[w].pc = "send"
    /\ Len(pool.errs) < ErrsCap
    /\ pool' = [pool EXCEPT !.errs = Append(@, w),
                            !.at[w] = IF pool.at[w].left = 1 THEN [pc |-> "recv", left |-> 0]
                                      ELSE [pc |-> "send", left |-> pool.at[w].left - 1]]
    /\ UNCHANGED <<disk, work, out, faults, last, assigned, taken, crashed,
                   store, mutex, calls, hist, catalog>>

\* A worker finds the jobs channel empty and closed, and ends.
WorkerDone(w) ==
    /\ pool.at[w].pc = "recv"
    /\ pool.jobs = <<>> /\ pool.closed
    /\ pool' = [pool EXCEPT !.at[w].pc = "done"]
    /\ UNCHANGED <<disk, work, out, faults, last, assigned, taken, crashed,
                   store, mutex, calls, hist, catalog>>

\* wg.Wait returns: Restore closes the errs channel and returns the first
\* error in it, or nil.
WaitReturns ==
    /\ pool.state = "waiting"
    /\ \A w \in Workers : pool.at[w].pc = "done"
    /\ pool' = [pool EXCEPT !.state = "returned",
                            !.res = IF pool.errs = <<>> THEN "ok" ELSE "err"]
    /\ UNCHANGED <<disk, work, out, faults, last, assigned, taken, crashed,
                   store, mutex, calls, hist, catalog>>

InitRun ==
    /\ disk = EmptyRepo
    /\ work = EmptyMap
    /\ out = NoPath
    /\ faults = 0
    /\ last = NoCommand
    /\ assigned = <<>>
    /\ taken = EmptyMap
    /\ crashed = FALSE
    /\ store = NewObjectStore
    /\ mutex = 0
    /\ calls = [w \in Workers |-> IdleCall]
    /\ pool = NoRun
    /\ hist = NoHistory(EmptyRepo)
    /\ catalog = [exists |-> FALSE, entries |-> {}]

NextRun ==
    \/ StartRestore
    \/ SendJob
    \/ WalkFails
    \/ WalkEnds
    \/ \E w \in Workers : RecvJob(w) \/ SendErr(w) \/ WorkerDone(w)
    \/ WaitReturns

\* The Go scheduler lets every goroutine that can take a step take it; the
\* failure of the traversal is no step that has to happen.
SpecRun ==
    /\ InitRun /\ [][NextRun]_vars
    /\ WF_vars(StartRestore) /\ WF_vars(SendJob) /\ WF_vars(WalkEnds) /\ WF_vars(WaitReturns)
    /\ \A w \in Workers : WF_vars(RecvJob(w)) /\ WF_vars(SendErr(w)) /\ WF_vars(WorkerDone(w))

\* C33: a restore that has started returns, whatever the number of its file
\* jobs and whichever of them fail.
C33_RestoreReturns == (pool.state = "walking") ~> (pool.state = "returned")

\* ------------------------------------------------------------------ the snap pool returns

\* The digest of the manifest of a file of these bytes.
ManifestOf(content) ==
    GetHash(MarshalManifest([i \in 1..Len(ChunkFile(content).chunks) |->
                                ChunkRef(ChunkFile(content).chunks[i].Hash,
                                         ChunkFile(content).chunks[i].Size)],
                            ChunkFile(content).totalSize))

CounterValues == 1..(222 + MaxOps)

\* C35: GetNextSnapID returns 1 on a counter file that is absent, empty or
\* white space, the integer the file holds when it holds one, and an error on
\* any other content.  Every increment stores the value the counter had plus
\* one: while no increment is under way, the counter of a repository that
\* started with the value n, or with no counter (n = 1), reads n + k after k
\* increments, however the goroutines that made them were interleaved; and on
\* a counter that does not parse nothing is ever stored.
C35_CounterSemantics ==
    /\ \A w \in Workers :
         (hist.by = w /\ calls[w].ret.op = "peek") =>
            IF disk.counter.st = "absent" \/ \A i \in 1..Len(disk.counter.content) :
                                                disk.counter.content[i] = Space
            THEN calls[w].ret.err = "none" /\ calls[w].ret.hash = 1
            ELSE IF \E n \in CounterValues :
                       TrimSpace(disk.counter.content) = FormatInt(n)
            THEN /\ calls[w].ret.err = "none"
                 /\ TrimSpace(disk.counter.content) = FormatInt(calls[w].ret.hash)
            ELSE calls[w].ret.err # "none"
    /\ mutex = 0 =>
         IF getNextSnapID(hist.disk).err
         THEN assigned = <<>> /\ disk = hist.disk
         ELSE /\ getNextSnapID(disk) =
                    [id |-> getNextSnapID(hist.disk).id + Len(assigned), err |-> FALSE]
              /\ \A k \in 1..Len(assigned) :
                    assigned[k] = getNextSnapID(hist.disk).id + k

\* Two increments were made on a repository without a counter file, by two
\* goroutines, and GetNextSnapID has just returned 3.
C35_Witness ==
    /\ hist.disk.counter.st = "absent"
    /\ Len(assigned) = 2
    /\ calls[1].op = "bump" /\ calls[2].ret.op = "peek"
    /\ hist.by = 2 /\ calls[2].ret.hash = 3 /\ calls[2].ret.err = "none"
    /\ mutex = 0

\* ------------------------------------------------------------------ C36

\* C36: the store mutex is held only across in-memory steps: no worker that
\* is opening a packfile or reading from it holds the mutex, so no other
\* worker that has called WriteObject or ReadObjectAsBuffer waits for the
\* mutex while a file is opened or read.
C36_ReadsOutsideMutex ==
    \A w \in Workers : calls[w].pc \in {"open", "readat"} => mutex # w

\* ------------------------------------------------------------------ C37

\* Every snapshot file the catalog lists has what its root tree reaches in
\* the index.json on disk.
Published(d) ==
    \A h \in Catalog(d) :
        /\ d.index.st = "ok"
        /\ TreeClosure(d, snapDetail(d, h).RootTreeHash) \subseteq DOMAIN d.index.map

\* C37: wherever a snap ends, by its return, by an error or by a crash, a
\* catalog whose snapshots were all in the on-disk index before it is so
\* after it; a snapshot file is added only by a snap whose Commit returned
\* without error, and the counter file is changed only by a snap that has
\* written its snapshot file.
C37_PublicationOrder ==
    [][(last'.op = "snap" /\ Published(disk))
       => /\ Published(disk')
          /\ DOMAIN disk'.snaps.files # DOMAIN disk.snaps.files
                => last'.stop \notin CommitStops
          /\ disk'.counter # disk.counter
                => (last'.key \in DOMAIN disk'.snaps.files
                    /\ last'.stop \notin {"manifest_none", "manifest_torn"})]_vars

\* ------------------------------------------------------------------ C38

\* C38: what GetNextSnapID returns never goes down: over every step, a snap
\* that stops inside IncrementNextSnapID's write of the counter file
\* included, the ID read from the counter file after the step is at least
\* the ID read before it.
C38_CounterNeverDecreases ==
    [][(~GetNextSnapID(disk).err /\ ~GetNextSnapID(disk').err)
       => GetNextSnapID(disk').id >= GetNextSnapID(disk).id]_vars

\* ------------------------------------------------------------------ C39

\* C39: a Commit that returns an error leaves the store as it was: the
\* pending objects are those of before the call and the in-memory index is
\* the index as loaded before the call, so every entry of the in-memory
\* index is in index.json and no digest is both pending and indexed.
C39_CommitErrorNoChange ==
    [][\A w \in Workers :
         (hist'.ops # hist.ops /\ hist'.by = w
          /\ calls'[w].ret.op = "commit" /\ calls'[w].ret.err # "none")
         => /\ store'.pendingObjects = store.pendingObjects
            /\ store'.packIndex = loadIndex(store, disk).s.packIndex
            /\ DOMAIN store'.packIndex \subseteq DOMAIN disk'.index.map
            /\ DOMAIN store'.packIndex \cap DOMAIN store'.pendingObjects = {}]_vars

\* ------------------------------------------------------------------ C40

\* C40: a directory gets its stored mode only when the files below it are
\* written: restoring, with no umask, a snapshot taken of a tree whose
\* directory s lacks the owner-write bit, into an output path that was absent
\* or a directory, succeeds and leaves every file of the tree at the output
\* path, however the traversal and the workers interleave.
C40_DirModeAfterFiles ==
    (/\ last.op = "restore" /\ ~last.inPlace /\ last.umask = 0
     /\ last.before.kind \in {"absent", "dir"}
     /\ last.key \in DOMAIN taken
     /\ NameS \in DOMAIN taken[last.key]
     /\ ~OwnerWrite(taken[last.key][NameS].mode))
    => (/\ last.res = "ok"
        /\ out.kind = "dir"
        /\ findAllFiles(out.tree, <<>>) = findAllFiles(taken[last.key], <<>>))

====
